---- MODULE Spec2Model ----
(***************************************************************************)
(* Verification model of the Aztec decoder pipeline (mdevolde/aztec_tool). *)
(*                                                                         *)
(* The module holds one state machine per pipeline stage:                  *)
(*   SpecSpiral    CodewordReader._read_bits, _correct (data spiral)       *)
(*   SpecStuff     CodewordReader._remove_stuff_bits                       *)
(*   SpecText      CodewordReader._decode         (text state machine)     *)
(*   SpecOrient    OrientationManager.rotate_if_needed                     *)
(*   SpecBullseye  BullseyeDetector._detect_bounds / layers / aztec_type   *)
(*   SpecRing      ModeReader.__init__ and _read_mode_bits (mode ring)     *)
(*   SpecField     ModeReader._correct and _extract_fields                 *)
(*   SpecDecoder   AztecDecoder, its cached views and decode()             *)
(*   SpecParams    SpecRing and SpecDecoder together (parameter checks)    *)
(*   SpecMulti     MultiAztecDecoder.decoders and messages                 *)
(*   SpecTextLive  SpecText under weak fairness of the loop's step         *)
(* Each stage has its own variables; a specification runs one stage and    *)
(* leaves the variables of the others at their idle values.                *)
(***************************************************************************)
EXTENDS Integers, Sequences, FiniteSets, TLC

VARIABLES
    \* ---- CodewordReader._read_bits ----
    side,               \* self.matrix.shape[0]
    layers,             \* self.layers
    aztec_type,         \* self.aztec_type
    square_size,
    reading_direction,
    start_point,
    end_point,
    apply_to_borns,
    line,               \* number of completed iterations of the outer for loop
    read_cells,         \* cells whose values the last side appended to bitmap
    bitmap_len,         \* len(bitmap) so far
    bitmap_cells,       \* the cells whose values are in bitmap so far, in order
    data_words,         \* self.data_words
    corrected_len,      \* len(corrected_bits) ("None" until _correct returns)
    sp_pc,              \* "idle" | "loop" | "done" | "IndexError" |
                        \* "corrected" | "ReedSolomonError"
    \* ---- CodewordReader._remove_stuff_bits ----
    rs_bits,            \* bits
    rs_cw_size,         \* cw_size
    rs_data_words,      \* data_words
    cleaned,
    rs_i,               \* i
    words_seen,
    rs_result,          \* the returned list
    rs_pc,              \* "idle" | "loop" | "done"
    \* ---- CodewordReader._decode (text state machine) ----
    tx_bits,            \* bits (the unstuffed stream)
    codeword_size,
    tx_data_words,      \* self.data_words
    tx_i,               \* i
    chars,              \* list of decoded strings, each a sequence of pieces
    current_mode,
    previous_mode,
    single_shift,
    single_consumed,
    lookups,            \* the calls get_char(val, current_mode) of line 187, in order
    tx_pc,              \* "idle" | "loop" | "done" | "ValueError"
    \* ---- OrientationManager ----
    om_input,           \* the matrix this OrientationManager was built with
    om_matrix,          \* self.matrix
    om_bounds,          \* self.bounds
    om_attempt,         \* iterations of `for _ in range(4)` started so far
    om_rotations,       \* np.rot90 calls of this rotate_if_needed
    om_first,           \* input of the first application (second run only)
    om_run,             \* 1: first application, 2: applied to its own output
    om_pc,              \* "idle" | "loop" | "done" | "IndexError"
    \* ---- BullseyeDetector ----
    bd_matrix,          \* self.matrix
    bd_layer,           \* local `layer` of _detect_bounds
    bd_bounds,          \* cached `bounds`
    _layers_value,      \* self._layers_value ("None" until bounds are computed)
    bd_aztec_type,      \* cached `aztec_type` ("None" until computed)
    bd_pc,              \* "idle" | "loop" | "done" | "BullseyeDetectionError" | "IndexError"
    \* ---- constructors and ModeReader._read_mode_bits ----
    mr_class,           \* "BullseyeDetector" | "ModeReader": the class constructed
    mr_shape,           \* matrix.shape
    mr_bounds,          \* bounds
    mr_aztec_type,      \* aztec_type
    mr_cells_read,      \* the indices (y, x) used to read self.matrix so far
    mr_mode_bitmap,     \* cached mode_bitmap: the matrix cell behind each bit
    mr_pc,              \* "idle" | "new" | "ready" | "read" |
                        \* "InvalidParameterError" | "ModeFieldError"
    \* ---- ModeReader._correct and _extract_fields ----
    mf_aztec_type,      \* self.aztec_type
    mf_auto_correct,    \* self.auto_correct
    mf_mode_bitmap,     \* cached mode_bitmap (bits)
    mf_corrected_bits,  \* cached mode_corrected_bits (<<>> until computed)
    mf_fields,          \* cached mode_fields (<<>> until computed)
    mf_pc,              \* "idle" | "start" | "corrected" | "done" |
                        \* "ModeFieldError" | "ReedSolomonError"
    \* ---- AztecDecoder ----
    dc_shape,           \* self._input_matrix.shape
    _auto_orient,       \* self._auto_orient
    _auto_correct,      \* self._auto_correct
    _mode_auto_correct, \* self._mode_auto_correct
    dc_symbol,          \* what the cells of the matrix make each stage do
    dc_state,           \* caches of the decoder and of the objects it holds,
                        \* with the counts of what has been computed
    dc_last,            \* the last access: view, value returned, error raised,
                        \* and whether the view was already cached
    dc_n,               \* number of accesses made
    \* ---- MultiAztecDecoder ----
    _matrices,          \* per detected symbol, what its decode() does
    decoders,           \* self.decoders: the sub-decoders, by detection rank
    messages,           \* the local list `messages`, then the cached value
    md_next,            \* position of the list iterator of the for loop
    md_pc

spiralVars == <<side, layers, aztec_type, square_size, reading_direction,
                start_point, end_point, apply_to_borns, line, read_cells,
                bitmap_len, bitmap_cells, data_words, corrected_len, sp_pc>>

stuffVars == <<rs_bits, rs_cw_size, rs_data_words, cleaned, rs_i, words_seen,
               rs_result, rs_pc>>

textVars == <<tx_bits, codeword_size, tx_data_words, tx_i, chars, current_mode,
              previous_mode, single_shift, single_consumed, lookups, tx_pc>>

orientVars == <<om_input, om_matrix, om_bounds, om_attempt, om_rotations,
                om_first, om_run, om_pc>>

bullseyeVars == <<bd_matrix, bd_layer, bd_bounds, _layers_value,
                  bd_aztec_type, bd_pc>>

ringVars == <<mr_class, mr_shape, mr_bounds, mr_aztec_type, mr_cells_read,
              mr_mode_bitmap, mr_pc>>

fieldVars == <<mf_aztec_type, mf_auto_correct, mf_mode_bitmap,
               mf_corrected_bits, mf_fields, mf_pc>>

decoderVars == <<dc_shape, _auto_orient, _auto_correct, _mode_auto_correct,
                 dc_symbol, dc_state, dc_last, dc_n>>

multiVars == <<_matrices, decoders, messages, md_next, md_pc>>

vars == <<spiralVars, stuffVars, textVars, orientVars, bullseyeVars, ringVars,
          fieldVars, decoderVars, multiVars>>

\* What each stage leaves alone.
NotSpiral == <<stuffVars, textVars, orientVars, bullseyeVars, ringVars, fieldVars,
    decoderVars, multiVars>>
NotStuff == <<spiralVars, textVars, orientVars, bullseyeVars, ringVars, fieldVars,
    decoderVars, multiVars>>
NotText == <<spiralVars, stuffVars, orientVars, bullseyeVars, ringVars, fieldVars,
    decoderVars, multiVars>>
NotOrient == <<spiralVars, stuffVars, textVars, bullseyeVars, ringVars, fieldVars,
    decoderVars, multiVars>>
NotBullseye == <<spiralVars, stuffVars, textVars, orientVars, ringVars, fieldVars,
    decoderVars, multiVars>>
NotRing == <<spiralVars, stuffVars, textVars, orientVars, bullseyeVars, fieldVars,
    decoderVars, multiVars>>
NotField == <<spiralVars, stuffVars, textVars, orientVars, bullseyeVars, ringVars,
    decoderVars, multiVars>>
NotDecoder == <<spiralVars, stuffVars, textVars, orientVars, bullseyeVars, ringVars,
    fieldVars, multiVars>>
NotMulti == <<spiralVars, stuffVars, textVars, orientVars, bullseyeVars, ringVars,
    fieldVars, decoderVars>>

(***************************************************************************)
(* Bounds of the model.                                                    *)
(***************************************************************************)
MinHalfS == 0       \* smallest spiral matrix has side 2*MinHalfS+1 = 1
MaxHalfS == 17      \* largest spiral matrix has side 2*MaxHalfS+1 = 35
MaxLayers == 32     \* layer counts 1..MaxLayers are tried
MaxDataWords == 2   \* data_words 1..MaxDataWords are tried by the spiral stage

(***************************************************************************)
(* Python / numpy indexing helpers.                                        *)
(***************************************************************************)
Min(a, b) == IF a < b THEN a ELSE b
Max(a, b) == IF a > b THEN a ELSE b

\* Python's % with a positive modulus: the result is in 0..m-1.
PyMod(a, m) == ((a % m) + m) % m

\* An integer index into an axis of length n: valid in -n..n-1, negative wraps.
IndexOK(i, n) == (-n <= i) /\ (i < n)
NormIndex(i, n) == IF i < 0 THEN i + n ELSE i

\* a[start:stop] (step 1) on an axis of length n: the list of indices read.
SliceUp(start, stop, n) ==
    LET s == Max(0, Min(n, IF start < 0 THEN start + n ELSE start))
        e == Max(0, Min(n, IF stop < 0 THEN stop + n ELSE stop))
    IN  [k \in 1..Max(0, e - s) |-> s + k - 1]

\* a[start:stop:-1] on an axis of length n: the list of indices read.
SliceDown(start, stop, n) ==
    LET s == Max(-1, Min(n - 1, IF start < 0 THEN start + n ELSE start))
        e == Max(-1, Min(n - 1, IF stop < 0 THEN stop + n ELSE stop))
    IN  [k \in 1..Max(0, s - e) |-> s - k + 1]

RECURSIVE Flatten(_)
Flatten(ss) == IF ss = <<>> THEN <<>> ELSE Head(ss) \o Flatten(Tail(ss))

(***************************************************************************)
(* CodewordReader.is_reference and _read_bits                              *)
(***************************************************************************)
centre == side \div 2

is_reference(r, c) == PyMod(r - centre, 16) = 0 \/ PyMod(c - centre, 16) = 0

\* Mutant: each side runs one step further, up to the corner.
SideRangeToCorner == [k \in 1..Max(0, square_size - 1) |-> apply_to_borns + k - 1]

\* range(apply_to_borns, square_size - 2 + apply_to_borns)
SideRange == [k \in 1..Max(0, square_size - 2) |-> apply_to_borns + k - 1]

\* Mutant: the TOP and LEFT sides do not add apply_to_borns back.
StepIndexUnshifted(i) ==
    CASE reading_direction = "BOTTOM" -> i
      [] reading_direction = "RIGHT"  -> i
      [] reading_direction = "TOP"    -> start_point[1] - i
      [] reading_direction = "LEFT"   -> start_point[2] - i

\* The integer index each step of the inner loop uses, per direction.
StepIndex(i) ==
    CASE reading_direction = "BOTTOM" -> i
      [] reading_direction = "RIGHT"  -> i
      [] reading_direction = "TOP"    -> start_point[1] - i + apply_to_borns
      [] reading_direction = "LEFT"   -> start_point[2] - i + apply_to_borns

\* The guard of the append, per direction (True = the domino is read).
StepReads(i) ==
    \/ aztec_type = "COMPACT"
    \/ CASE reading_direction = "BOTTOM" -> ~is_reference(i, start_point[2])
         [] reading_direction = "RIGHT"  -> ~is_reference(start_point[1], i)
         [] reading_direction = "TOP"    ->
                ~is_reference(start_point[1] - i + apply_to_borns, start_point[2])
         [] reading_direction = "LEFT"   ->
                ~is_reference(start_point[1], start_point[2] - i + apply_to_borns)

\* The cells (row, col) of the slice one step appends, in bitmap order.
StepCells(i) ==
    LET x == NormIndex(StepIndex(i), side)
    IN  CASE reading_direction = "BOTTOM" ->
                LET cs == SliceUp(start_point[2], end_point[2] + 1, side)
                IN  [k \in 1..Len(cs) |-> <<x, cs[k]>>]
          [] reading_direction = "RIGHT" ->
                LET rs == SliceDown(start_point[1], end_point[1] - 1, side)
                IN  [k \in 1..Len(rs) |-> <<rs[k], x>>]
          [] reading_direction = "TOP" ->
                LET cs == SliceDown(start_point[2], end_point[2] - 1, side)
                IN  [k \in 1..Len(cs) |-> <<x, cs[k]>>]
          [] reading_direction = "LEFT" ->
                LET rs == SliceUp(start_point[1], end_point[1] + 1, side)
                IN  [k \in 1..Len(rs) |-> <<rs[k], x>>]

\* The steps of the current side whose domino is appended.
ReadSteps == SelectSeq(SideRange, StepReads)

\* An appended step with an out-of-range integer index raises IndexError.
SideRaises == \E k \in 1..Len(ReadSteps) : ~IndexOK(StepIndex(ReadSteps[k]), side)

SideCells == Flatten([k \in 1..Len(ReadSteps) |-> StepCells(ReadSteps[k])])

\* Inner for loop of one side, then the geometry update of that direction.
ReadSide(dir, new_start, new_end, new_size, new_borns, new_dir) ==
    /\ sp_pc = "loop"
    /\ line < layers * 4
    /\ reading_direction = dir
    /\ IF SideRaises
          THEN /\ sp_pc' = "IndexError"
               /\ UNCHANGED <<side, layers, aztec_type, square_size,
                              reading_direction, start_point, end_point,
                              apply_to_borns, line, read_cells, bitmap_len, bitmap_cells,
                              data_words, corrected_len>>
               /\ UNCHANGED NotSpiral
          ELSE /\ LET cells == SideCells
                   IN  /\ read_cells' = cells
                       /\ bitmap_len' = bitmap_len + Len(cells)
                       /\ bitmap_cells' = bitmap_cells \o cells
               /\ start_point' = new_start
               /\ end_point' = new_end
               /\ square_size' = new_size
               /\ apply_to_borns' = new_borns
               /\ reading_direction' = new_dir
               /\ line' = line + 1
               /\ UNCHANGED <<side, layers, aztec_type, data_words,
                              corrected_len, sp_pc>>
               /\ UNCHANGED NotSpiral

ReadBottom ==
    LET s == <<start_point[1] + square_size - 1, start_point[2]>>
    IN  ReadSide("BOTTOM", s, <<s[1] - 1, s[2] + square_size - 1 - 2>>,
                 square_size, apply_to_borns, "RIGHT")

ReadRight ==
    LET s == <<start_point[1], start_point[2] + square_size - 1>>
    IN  ReadSide("RIGHT", s, <<s[1] - square_size + 1 + 2, s[2] - 1>>,
                 square_size, apply_to_borns, "TOP")

ReadTop ==
    LET s == <<start_point[1] - square_size + 1, start_point[2]>>
    IN  ReadSide("TOP", s, <<s[1] + 1, s[2] - square_size + 1 + 2>>,
                 square_size, apply_to_borns, "LEFT")

ReadLeft ==
    LET s0    == <<end_point[1] + 1, end_point[2]>>
        nudge == is_reference(s0[1], s0[2])
        s     == IF nudge THEN <<s0[1] + 1, s0[2] + 1>> ELSE s0
        size  == IF nudge THEN square_size - 4 - 2 ELSE square_size - 4
        borns == IF nudge THEN apply_to_borns + 2 + 1 ELSE apply_to_borns + 2
    IN  ReadSide("LEFT", s, <<s[1] + size - 1 - 2, s[2] + 1>>, size, borns, "BOTTOM")

\* The outer loop is exhausted: np.concatenate and return.
ReadBitsReturn ==
    /\ sp_pc = "loop"
    /\ line = layers * 4
    /\ sp_pc' = "done"
    /\ UNCHANGED <<side, layers, aztec_type, square_size, reading_direction,
                   start_point, end_point, apply_to_borns, line, read_cells,
                   bitmap_len, bitmap_cells, data_words, corrected_len>>
    /\ UNCHANGED NotSpiral

\* _correct, lines 90-93 (and _decode, lines 157-160)
cw_size ==
    IF layers <= 2 THEN 6
    ELSE IF layers <= 8 THEN 8
    ELSE IF layers <= 22 THEN 10
    ELSE 12

\* Mutant: the polynomial of GF(64) is the one its comment describes.
PrimPolyAsCommented == (6 :> \h61) @@ (8 :> \h12d) @@ (10 :> \h409) @@ (12 :> \h1069)

\* CodewordReader.PRIM_POLY
PRIM_POLY == (6 :> \h43) @@ (8 :> \h12d) @@ (10 :> \h409) @@ (12 :> \h1069)

\* prim = self.PRIM_POLY[cw_size]
prim == PRIM_POLY[cw_size]

\* total_words = len(self.bitmap) // cw_size
total_words == bitmap_len \div cw_size

\* Mutant: every bit of the bitmap is expanded, not only the whole words.
CorrectedLengthOfBitmap == bitmap_len

\* rs.decode returns the full code-word, one symbol per input symbol; each
\* symbol is expanded into cw_size bits (lines 116-124).
CorrectedLength == total_words * cw_size

CorrectReturn ==
    /\ sp_pc = "done"
    /\ corrected_len' = CorrectedLength
    /\ sp_pc' = "corrected"
    /\ UNCHANGED <<side, layers, aztec_type, square_size, reading_direction,
                   start_point, end_point, apply_to_borns, line, read_cells,
                   bitmap_len, bitmap_cells, data_words>>
    /\ UNCHANGED NotSpiral

\* rs.decode (reedsolo) raises: too many errors, or parameters it rejects.
CorrectRaises ==
    /\ sp_pc = "done"
    /\ sp_pc' = "ReedSolomonError"
    /\ UNCHANGED <<side, layers, aztec_type, square_size, reading_direction,
                   start_point, end_point, apply_to_borns, line, read_cells,
                   bitmap_len, bitmap_cells, data_words, corrected_len>>
    /\ UNCHANGED NotSpiral

SpiralSides == {2 * h + 1 : h \in MinHalfS..MaxHalfS}

SpiralInit ==
    /\ side \in SpiralSides
    /\ layers \in 1..MaxLayers
    /\ aztec_type \in {"COMPACT", "FULL"}
    /\ square_size = side
    /\ reading_direction = "BOTTOM"
    /\ start_point = <<0, 0>>
    /\ end_point = <<side - 1 - 2, 1>>
    /\ apply_to_borns = 0
    /\ line = 0
    /\ read_cells = <<>>
    /\ bitmap_len = 0
    /\ bitmap_cells = <<>>
    /\ data_words \in 1..MaxDataWords
    /\ corrected_len = "None"
    /\ sp_pc = "loop"

SpiralNext ==
    \/ ReadBottom
    \/ ReadRight
    \/ ReadTop
    \/ ReadLeft
    \/ ReadBitsReturn
    \/ CorrectReturn
    \/ CorrectRaises

SpiralIdle ==
    /\ side = 1
    /\ layers = 0
    /\ aztec_type = "COMPACT"
    /\ square_size = 1
    /\ reading_direction = "BOTTOM"
    /\ start_point = <<0, 0>>
    /\ end_point = <<0, 0>>
    /\ apply_to_borns = 0
    /\ line = 0
    /\ read_cells = <<>>
    /\ bitmap_len = 0
    /\ bitmap_cells = <<>>
    /\ data_words = 0
    /\ corrected_len = "None"
    /\ sp_pc = "idle"

(***************************************************************************)
(* CodewordReader._remove_stuff_bits                                       *)
(***************************************************************************)
MaxStreamWords == 2     \* input streams hold up to this many full code-words
MaxTail == 1            \* ... followed by up to this many extra bits
MaxWords == 2           \* data_words ranges over 0..MaxWords

\* Python's seq[a:b] for 0 <= a, 0 <= b (0-based, end exclusive).
PySlice(seq, a, b) == SubSeq(seq, a + 1, Min(b, Len(seq)))

\* all(b == run[0] for b in run[:-1])
AllButLastEqual(run) == \A j \in 1..(Len(run) - 1) : run[j] = run[1]

\* run[:-1]
ButLast(run) == SubSeq(run, 1, Len(run) - 1)

\* Mutant: the bit is dropped only when all k bits of the run are equal.
StuffKeptWhenAllEqual(run) ==
    IF \A j \in 1..Len(run) : run[j] = run[1] THEN ButLast(run) ELSE run

\* What one iteration of the while loop extends `cleaned` with.
StuffKept(run) == IF AllButLastEqual(run) THEN ButLast(run) ELSE run

StuffRun == PySlice(rs_bits, rs_i, rs_i + rs_cw_size)

StuffLoopGuard ==
    /\ rs_pc = "loop"
    /\ words_seen < rs_data_words
    /\ rs_i < Len(rs_bits)

\* if-branch of the loop body: the first bits of the run are all equal.
StuffWordStuffed ==
    /\ StuffLoopGuard
    /\ AllButLastEqual(StuffRun)
    /\ cleaned' = cleaned \o StuffKept(StuffRun)
    /\ rs_i' = rs_i + rs_cw_size
    /\ words_seen' = words_seen + 1
    /\ UNCHANGED <<rs_bits, rs_cw_size, rs_data_words, rs_result, rs_pc>>
    /\ UNCHANGED NotStuff

\* else-branch of the loop body.
StuffWordPlain ==
    /\ StuffLoopGuard
    /\ ~AllButLastEqual(StuffRun)
    /\ cleaned' = cleaned \o StuffKept(StuffRun)
    /\ rs_i' = rs_i + rs_cw_size
    /\ words_seen' = words_seen + 1
    /\ UNCHANGED <<rs_bits, rs_cw_size, rs_data_words, rs_result, rs_pc>>
    /\ UNCHANGED NotStuff

\* Mutant: the leading padding is not dropped.
StuffResultNoPadding(cl) == PySlice(cl, 0, rs_data_words * rs_cw_size)

\* start_padding = len(bits) % cw_size; return cleaned[start_padding:data_words * cw_size]
StuffResult(cl) ==
    PySlice(cl, Len(rs_bits) % rs_cw_size, rs_data_words * rs_cw_size)

StuffReturn ==
    /\ rs_pc = "loop"
    /\ ~(words_seen < rs_data_words /\ rs_i < Len(rs_bits))
    /\ rs_result' = StuffResult(cleaned)
    /\ rs_pc' = "done"
    /\ UNCHANGED <<rs_bits, rs_cw_size, rs_data_words, cleaned, rs_i, words_seen>>
    /\ UNCHANGED NotStuff

\* Input code-words: j leading bits b, then the complement up to k bits.
StuffWord(k, b, j) == [x \in 1..k |-> IF x <= j THEN b ELSE 1 - b]

StuffWords(k) == {StuffWord(k, b, j) : b \in {0, 1}, j \in {k - 2, k - 1, k}}

RECURSIVE StuffStreams(_, _)
StuffStreams(k, n) ==
    IF n = 0 THEN {<<>>}
    ELSE LET shorter == StuffStreams(k, n - 1)
         IN  shorter \cup {s \o w : s \in {t \in shorter : Len(t) = (n - 1) * k},
                                    w \in StuffWords(k)}

StuffTails == {[x \in 1..n |-> b] : n \in 0..MaxTail, b \in {0, 1}}

CodewordSizes == {6, 8, 10, 12}

StuffInit ==
    /\ rs_cw_size \in CodewordSizes
    /\ rs_data_words \in 0..MaxWords
    /\ rs_bits \in {s \o t : s \in StuffStreams(rs_cw_size, MaxStreamWords),
                             t \in StuffTails}
    /\ cleaned = <<>>
    /\ rs_i = 0
    /\ words_seen = 0
    /\ rs_result = <<>>
    /\ rs_pc = "loop"

StuffIdle ==
    /\ rs_cw_size = 6
    /\ rs_data_words = 0
    /\ rs_bits = <<>>
    /\ cleaned = <<>>
    /\ rs_i = 0
    /\ words_seen = 0
    /\ rs_result = <<>>
    /\ rs_pc = "idle"

StuffNext == StuffWordStuffed \/ StuffWordPlain \/ StuffReturn

(***************************************************************************)
(* TableManager (tables.py): the five character tables.  Control           *)
(* characters are written chr(n), and backslash, backtick and double quote *)
(* by name.                                                                *)
(***************************************************************************)
UpperTable ==
    <<"P/S", " ", "A", "B", "C", "D", "E", "F", "G", "H", "I", "J", "K", "L",
      "M", "N", "O", "P", "Q", "R", "S", "T", "U", "V", "W", "X", "Y", "Z",
      "L/L", "M/L", "D/L", "B/S">>

LowerTable ==
    <<"P/S", " ", "a", "b", "c", "d", "e", "f", "g", "h", "i", "j", "k", "l",
      "m", "n", "o", "p", "q", "r", "s", "t", "u", "v", "w", "x", "y", "z",
      "U/S", "M/L", "D/L", "B/S">>

MixedTable ==
    <<"P/S", " ", "chr(1)", "chr(2)", "chr(3)", "chr(4)", "chr(5)", "chr(6)",
      "chr(7)", "chr(8)", "chr(9)", "chr(10)", "chr(11)", "chr(12)", "chr(13)",
      "chr(27)", "chr(28)", "chr(29)", "chr(30)", "chr(31)", "@", "backslash", "^",
      "_", "backtick", "|", "~", "chr(127)", "L/L", "U/L", "P/L", "B/S">>

PunctTable ==
    <<"FLG(n)", "chr(10)", "chr(10)chr(13)", ". ", ", ", ": ", "!", "quote", "#",
      "$", "%", "&", "'", "(", ")", "*", "+", ",", "-", ".", "/", ":", ";",
      "<", "=", ">", "?", "[", "]", "{", "}", "U/L">>

DigitTable ==
    <<"P/S", " ", "0", "1", "2", "3", "4", "5", "6", "7", "8", "9", ",", ".",
      "U/L", "U/S">>

\* TableManager.get_char; "None" stands for the SymbolDecodeError cases.
get_char(index, mode) ==
    CASE mode = "UPPER" -> UpperTable[index + 1]
      [] mode = "LOWER" -> LowerTable[index + 1]
      [] mode = "MIXED" -> MixedTable[index + 1]
      [] mode = "PUNCT" -> PunctTable[index + 1]
      [] mode = "DIGIT" -> IF index < 16 THEN DigitTable[index + 1] ELSE "None"

\* char.endswith("/S"), char.endswith("/L"), char.startswith("FLG") on table entries.
EndsWithS(char) == char \in {"P/S", "U/S", "L/S", "M/S", "D/S", "B/S"}
EndsWithL(char) == char \in {"U/L", "L/L", "M/L", "P/L", "D/L"}
StartsWithFLG(char) == char = "FLG(n)"

\* TableManager.letter_to_mode(char[0]) for a shift or latch token.
letter_to_mode(char) ==
    CASE char \in {"U/S", "U/L"} -> "UPPER"
      [] char \in {"L/S", "L/L"} -> "LOWER"
      [] char \in {"M/S", "M/L"} -> "MIXED"
      [] char \in {"P/S", "P/L"} -> "PUNCT"
      [] char \in {"D/S", "D/L"} -> "DIGIT"

\* Number of characters of a DIGIT table entry.
StrLen(char) == IF char \in {"P/S", "U/L", "U/S"} THEN 3 ELSE 1

(***************************************************************************)
(* CodewordReader._bits_to_int, _bits_to_bytes                             *)
(***************************************************************************)
RECURSIVE BitsValue(_, _)
BitsValue(bits, n) ==
    IF n = 0 THEN 0 ELSE 2 * BitsValue(bits, n - 1) + bits[n]

_bits_to_int(bits) == BitsValue(bits, Len(bits))

\* bytes(... for i in range(0, len(bits), 8)).decode("latin-1"): code points.
_bits_to_bytes(bits) ==
    [j \in 1..((Len(bits) + 7) \div 8) |->
        _bits_to_int(PySlice(bits, 8 * (j - 1), 8 * j))]

(***************************************************************************)
(* CodewordReader._decode: the while loop, one action per token kind.      *)
(***************************************************************************)
\* lines 174-177: a pending single shift that consumed its item reverts.
Reverting == single_shift /\ single_consumed = 1
Mode0 == IF Reverting THEN previous_mode ELSE current_mode
Shift0 == IF Reverting THEN FALSE ELSE single_shift
ConsumedKept == single_consumed
Consumed0 == IF Reverting THEN 0 ELSE single_consumed

\* lines 179-187: the symbol of this iteration.
SymbolWidthNarrow == IF Mode0 = "DIGIT" THEN 4 ELSE 5 - 2
SymbolWidth == IF Mode0 = "DIGIT" THEN 4 ELSE 5
SymbolBits == PySlice(tx_bits, tx_i, tx_i + SymbolWidth)
AfterSymbol == tx_i + SymbolWidth
SymbolChar == get_char(_bits_to_int(SymbolBits), Mode0)

TextLoopGuard == tx_pc = "loop" /\ (tx_i \div codeword_size) < tx_data_words

TextLookup ==
    /\ TextLoopGuard
    /\ SymbolBits # <<>>
    /\ lookups' = Append(lookups, [mode |-> Mode0, char |-> SymbolChar])

\* int("", 2) on an empty symbol slice raises ValueError.
TextReadFails ==
    /\ TextLoopGuard
    /\ SymbolBits = <<>>
    /\ tx_pc' = "ValueError"
    /\ current_mode' = Mode0
    /\ single_shift' = Shift0
    /\ single_consumed' = Consumed0
    /\ tx_i' = AfterSymbol
    /\ UNCHANGED <<tx_bits, codeword_size, tx_data_words, chars, previous_mode,
                   lookups>>
    /\ UNCHANGED NotText

\* lines 189-201
TextByteShift ==
    /\ TextLookup
    /\ SymbolChar = "B/S"
    /\ current_mode' = Mode0
    /\ single_shift' = Shift0
    /\ single_consumed' = Consumed0
    /\ LET i1      == AfterSymbol
           lenbits == PySlice(tx_bits, i1, i1 + 5)
           short   == _bits_to_int(lenbits)
           i2      == i1 + 5
           extbits == PySlice(tx_bits, i2, i2 + 11)
           length  == IF short = 0 THEN _bits_to_int(extbits) + 31 ELSE short
           i3      == IF short = 0 THEN i2 + 11 ELSE i2
       IN  IF lenbits = <<>>
              THEN \* break, then return "".join(chars)
                   /\ tx_pc' = "done"
                   /\ tx_i' = i1
                   /\ chars' = chars
              ELSE IF short = 0 /\ extbits = <<>>
              THEN /\ tx_pc' = "ValueError"
                   /\ tx_i' = i2
                   /\ chars' = chars
              ELSE /\ tx_pc' = "loop"
                   /\ tx_i' = i3 + 8 * length
                   /\ chars' = Append(chars,
                                 _bits_to_bytes(PySlice(tx_bits, i3, i3 + 8 * length)))
    /\ UNCHANGED <<tx_bits, codeword_size, tx_data_words, previous_mode>>
    /\ UNCHANGED NotText

\* lines 203-208
TextShift ==
    /\ TextLookup
    /\ SymbolChar # "B/S"
    /\ EndsWithS(SymbolChar)
    /\ previous_mode' = Mode0
    /\ current_mode' = letter_to_mode(SymbolChar)
    /\ single_shift' = TRUE
    /\ single_consumed' = 0
    /\ tx_i' = AfterSymbol
    /\ UNCHANGED <<tx_bits, codeword_size, tx_data_words, chars, tx_pc>>
    /\ UNCHANGED NotText

\* lines 210-213
TextLatch ==
    /\ TextLookup
    /\ EndsWithL(SymbolChar)
    /\ current_mode' = letter_to_mode(SymbolChar)
    /\ previous_mode' = letter_to_mode(SymbolChar)
    /\ single_shift' = Shift0
    /\ single_consumed' = Consumed0
    /\ tx_i' = AfterSymbol
    /\ UNCHANGED <<tx_bits, codeword_size, tx_data_words, chars, tx_pc>>
    /\ UNCHANGED NotText

\* digits.zfill(6): zeros on the left up to six characters.
RECURSIVE SumStrLen(_)
SumStrLen(pieces) ==
    IF pieces = <<>> THEN 0 ELSE StrLen(Head(pieces)) + SumStrLen(Tail(pieces))

zfill6(pieces) == [j \in 1..Max(0, 6 - SumStrLen(pieces)) |-> "0"] \o pieces

\* lines 222-224: the n 4-bit values read after FLG(n), as DIGIT table entries.
EciDigitBits(i, j) == PySlice(tx_bits, i + 4 * (j - 1), i + 4 * j)
EciDigits(i, n) ==
    [j \in 1..n |-> get_char(_bits_to_int(EciDigitBits(i, j)), "DIGIT")]

\* lines 215-229
TextFlag ==
    /\ TextLookup
    /\ StartsWithFLG(SymbolChar)
    /\ current_mode' = Mode0
    /\ single_shift' = Shift0
    /\ single_consumed' = Consumed0
    /\ LET i1    == AfterSymbol
           nbits == PySlice(tx_bits, i1, i1 + 3)
           n     == _bits_to_int(nbits)
           i2    == i1 + 3
       IN  IF nbits = <<>>
              THEN /\ tx_pc' = "ValueError"
                   /\ tx_i' = i1
                   /\ chars' = chars
              ELSE IF n = 0
              THEN /\ tx_pc' = "loop"
                   /\ tx_i' = i2
                   /\ chars' = Append(chars, <<"chr(29)">>)
              ELSE IF n <= 6
              THEN IF \E j \in 1..n : EciDigitBits(i2, j) = <<>>
                      THEN /\ tx_pc' = "ValueError"
                           /\ tx_i' = i2
                           /\ chars' = chars
                      ELSE /\ tx_pc' = "loop"
                           /\ tx_i' = i2 + 4 * n
                           /\ chars' = Append(chars,
                                  <<"[ECI:">> \o zfill6(EciDigits(i2, n)) \o <<"]">>)
              ELSE \* raise ValueError("FLG(7) reserved/illegal")
                   /\ tx_pc' = "ValueError"
                   /\ tx_i' = i2
                   /\ chars' = chars
    /\ UNCHANGED <<tx_bits, codeword_size, tx_data_words, previous_mode>>
    /\ UNCHANGED NotText

\* lines 231-236
TextLiteral ==
    /\ TextLookup
    /\ ~EndsWithS(SymbolChar)
    /\ ~EndsWithL(SymbolChar)
    /\ ~StartsWithFLG(SymbolChar)
    /\ chars' = Append(chars, <<SymbolChar>>)
    /\ current_mode' = Mode0
    /\ single_shift' = Shift0
    /\ single_consumed' = IF Shift0 THEN Consumed0 + 1 ELSE Consumed0
    /\ tx_i' = AfterSymbol
    /\ UNCHANGED <<tx_bits, codeword_size, tx_data_words, previous_mode, tx_pc>>
    /\ UNCHANGED NotText

\* line 238: the loop guard fails, return "".join(chars)
TextReturn ==
    /\ tx_pc = "loop"
    /\ ~((tx_i \div codeword_size) < tx_data_words)
    /\ tx_pc' = "done"
    /\ UNCHANGED <<tx_bits, codeword_size, tx_data_words, tx_i, chars,
                   current_mode, previous_mode, single_shift, single_consumed,
                   lookups>>
    /\ UNCHANGED NotText

(***************************************************************************)
(* Input streams of the text machine: up to MaxChunks chunks.              *)
(***************************************************************************)
MaxChunks == 4          \* chunks per input stream
MaxTextWords == 4       \* data_words of the text machine

TextChunks ==
    { <<0, 0, 0, 0, 0>>,            \* 0: P/S, FLG(n)
      <<0, 0, 1, 1, 0>>,            \* 6: E, e, !, ...
      <<1, 1, 1, 1, 1>>,            \* 31: B/S, U/L
      <<0, 0, 0, 0, 1>>,            \* 1: space, byte count 1
      <<1, 1, 1, 0, 0>>,            \* 28: L/L, U/S
      <<0, 0, 1>>,                  \* n = 1
      <<0, 1, 0, 0, 0, 0, 0, 1>> }  \* byte 65

RECURSIVE TextStreams(_)
TextStreams(n) ==
    IF n = 0 THEN {<<>>}
    ELSE LET shorter == TextStreams(n - 1)
         IN  shorter \cup {s \o c : s \in shorter, c \in TextChunks}

TextStart(n) ==
    /\ tx_bits \in TextStreams(n)
    /\ codeword_size \in CodewordSizes
    /\ tx_data_words \in 0..MaxTextWords
    /\ tx_i = 0
    /\ chars = <<>>
    /\ current_mode = "UPPER"
    /\ previous_mode = "UPPER"
    /\ single_shift = FALSE
    /\ single_consumed = 0
    /\ lookups = <<>>
    /\ tx_pc = "loop"

TextInit == TextStart(MaxChunks)

MaxLiveChunks == 2      \* chunks per input stream under the fair specification

TextLiveInit == TextStart(MaxLiveChunks)

TextIdle ==
    /\ tx_bits = <<>>
    /\ codeword_size = 6
    /\ tx_data_words = 0
    /\ tx_i = 0
    /\ chars = <<>>
    /\ current_mode = "UPPER"
    /\ previous_mode = "UPPER"
    /\ single_shift = FALSE
    /\ single_consumed = 0
    /\ lookups = <<>>
    /\ tx_pc = "idle"

TextNext ==
    \/ TextReadFails
    \/ TextByteShift
    \/ TextShift
    \/ TextLatch
    \/ TextFlag
    \/ TextLiteral
    \/ TextReturn

(***************************************************************************)
(* OrientationManager (orientation.py).  A matrix is a sequence of rows;   *)
(* MatAt is numpy's matrix[r, c] for in-range integer indices.             *)
(***************************************************************************)
MaxHalfO == 2           \* orientation matrices have side 3..2*MaxHalfO+1

MatSide(m) == Len(m)
MatAt(m, r, c) == m[NormIndex(r, MatSide(m)) + 1][NormIndex(c, MatSide(m)) + 1]

\* The twelve reads of _read_patterns, in order: tl, tr, br, bl.
PatternCells(b) ==
    LET tl_y == b[1]  tl_x == b[2]  br_y == b[3]  br_x == b[4]
        tr_y == tl_y  tr_x == br_x  bl_y == br_y  bl_x == tl_x
    IN  << << <<tl_y, tl_x - 1>>, <<tl_y - 1, tl_x - 1>>, <<tl_y - 1, tl_x>> >>,
           << <<tr_y - 1, tr_x>>, <<tr_y - 1, tr_x + 1>>, <<tr_y, tr_x + 1>> >>,
           << <<br_y, br_x + 1>>, <<br_y + 1, br_x + 1>>, <<br_y + 1, br_x>> >>,
           << <<bl_y + 1, bl_x>>, <<bl_y + 1, bl_x - 1>>, <<bl_y, bl_x - 1>> >> >>

\* Some read of _read_patterns is out of range: numpy raises IndexError.
PatternsRaise(m, b) ==
    \E k \in 1..4, j \in 1..3 :
        \/ ~IndexOK(PatternCells(b)[k][j][1], MatSide(m))
        \/ ~IndexOK(PatternCells(b)[k][j][2], MatSide(m))

_read_patterns(m, b) ==
    [k \in 1..4 |->
        [j \in 1..3 |-> MatAt(m, PatternCells(b)[k][j][1], PatternCells(b)[k][j][2])]]

\* Mutant: the top-right mark is compared with [1, 1, 0].
NeedRotationWrongMark(m, b) ==
    LET pat == _read_patterns(m, b)
    IN  ~(pat[1] = <<1, 1, 1>> /\ pat[2] = <<1, 1, 0>>
          /\ pat[3] = <<1, 0, 0>> /\ pat[4] = <<0, 0, 0>>)

_need_rotation(m, b) ==
    LET orientation_patterns == _read_patterns(m, b)
    IN  ~( /\ orientation_patterns[1] = <<1, 1, 1>>
           /\ orientation_patterns[2] = <<0, 1, 1>>
           /\ orientation_patterns[3] = <<1, 0, 0>>
           /\ orientation_patterns[4] = <<0, 0, 0>> )

\* np.rot90(m, k=3): one clockwise quarter turn.
rot90_k3(m) ==
    LET n == MatSide(m)
    IN  [i \in 1..n |-> [j \in 1..n |-> m[n + 1 - j][i]]]

\* Mutant: the loop makes three attempts.
ThreeAttempts == 4 - 1

\* for _ in range(4)
RotateAttempts == 4

OrientRaise ==
    /\ om_pc = "loop"
    /\ om_attempt < RotateAttempts
    /\ PatternsRaise(om_matrix, om_bounds)
    /\ om_pc' = "IndexError"
    /\ UNCHANGED <<om_input, om_matrix, om_bounds, om_attempt, om_rotations,
                   om_first, om_run>>
    /\ UNCHANGED NotOrient

OrientRotate ==
    /\ om_pc = "loop"
    /\ om_attempt < RotateAttempts
    /\ ~PatternsRaise(om_matrix, om_bounds)
    /\ _need_rotation(om_matrix, om_bounds)
    /\ om_matrix' = rot90_k3(om_matrix)
    /\ om_attempt' = om_attempt + 1
    /\ om_rotations' = om_rotations + 1
    /\ UNCHANGED <<om_input, om_bounds, om_first, om_run, om_pc>>
    /\ UNCHANGED NotOrient

\* else: break, then return self.matrix
OrientBreak ==
    /\ om_pc = "loop"
    /\ om_attempt < RotateAttempts
    /\ ~PatternsRaise(om_matrix, om_bounds)
    /\ ~_need_rotation(om_matrix, om_bounds)
    /\ om_pc' = "done"
    /\ UNCHANGED <<om_input, om_matrix, om_bounds, om_attempt, om_rotations,
                   om_first, om_run>>
    /\ UNCHANGED NotOrient

\* the for loop is exhausted: return self.matrix
OrientExhausted ==
    /\ om_pc = "loop"
    /\ om_attempt >= RotateAttempts
    /\ om_pc' = "done"
    /\ UNCHANGED <<om_input, om_matrix, om_bounds, om_attempt, om_rotations,
                   om_first, om_run>>
    /\ UNCHANGED NotOrient

\* OrientationManager(result, bounds).rotate_if_needed(): the step applied
\* to its own output.
OrientReapply ==
    /\ om_pc = "done"
    /\ om_run = 1
    /\ om_run' = 2
    /\ om_first' = om_input
    /\ om_input' = om_matrix
    /\ om_attempt' = 0
    /\ om_rotations' = 0
    /\ om_pc' = "loop"
    /\ UNCHANGED <<om_matrix, om_bounds>>
    /\ UNCHANGED NotOrient

\* Input matrices: the four corner marks are drawn from MarkValues, the
\* middle cell of the top row is dark in one of the two fillers, every other
\* cell is 0.  When the bounds touch the border there are no marks to draw.
MarkValues == {<<1, 1, 1>>, <<0, 1, 1>>, <<1, 0, 0>>, <<0, 0, 0>>,
               <<1, 1, 0>>, <<0, 0, 1>>}

SymmetricBounds(h, r) == <<h - r, h - r, h + r, h + r>>

MarkMatrix(h, r, marks, filler) ==
    LET n == 2 * h + 1
        cells == PatternCells(SymmetricBounds(h, r))
        IsMark(i, j, k, q) == cells[k][q] = <<i, j>>
    IN  [i1 \in 1..n |-> [j1 \in 1..n |->
            LET i == i1 - 1
                j == j1 - 1
            IN  IF \E k \in 1..4, q \in 1..3 : IsMark(i, j, k, q)
                   THEN LET k == CHOOSE k \in 1..4 : \E q \in 1..3 : IsMark(i, j, k, q)
                            q == CHOOSE q \in 1..3 : IsMark(i, j, k, q)
                        IN  marks[k][q]
                   ELSE IF filler = 1 /\ i = 0 /\ j = h THEN 1 ELSE 0]]

OrientInit ==
    /\ \E h \in 1..MaxHalfO, r \in 1..MaxHalfO :
         /\ r <= h
         /\ om_bounds = SymmetricBounds(h, r)
         /\ \E marks \in [1..4 -> MarkValues], filler \in {0, 1} :
              om_input = IF r < h THEN MarkMatrix(h, r, marks, filler)
                                  ELSE [i \in 1..(2 * h + 1) |->
                                           [j \in 1..(2 * h + 1) |->
                                               IF filler = 1 /\ i = 1 THEN 1 ELSE 0]]
    /\ om_matrix = om_input
    /\ om_attempt = 0
    /\ om_rotations = 0
    /\ om_first = <<>>
    /\ om_run = 1
    /\ om_pc = "loop"

OrientIdle ==
    /\ om_input = <<>>
    /\ om_matrix = <<>>
    /\ om_bounds = <<0, 0, 0, 0>>
    /\ om_attempt = 0
    /\ om_rotations = 0
    /\ om_first = <<>>
    /\ om_run = 0
    /\ om_pc = "idle"

OrientNext ==
    \/ OrientRaise
    \/ OrientRotate
    \/ OrientBreak
    \/ OrientExhausted
    \/ OrientReapply

(***************************************************************************)
(* BullseyeDetector (aztec_tool/detection.py).                             *)
(***************************************************************************)
MaxHalfB == 5           \* bull's-eye matrices have side 1..2*MaxHalfB+1

\* cx, cy = w // 2, h // 2
BdCentre(m) == MatSide(m) \div 2

\* color = (layer + 1) % 2
RingColor(layer) == (layer + 1) % 2

\* The tests of one pass of the while loop, in order: each is the pair of
\* cells (y, x) joined by `or`; first the y loop, then the x loop.
RingTests(m, layer) ==
    LET cy == BdCentre(m)
        cx == BdCentre(m)
        n == 2 * layer + 1
    IN  [t \in 1..(2 * n) |->
            IF t <= n
               THEN LET y == cy - layer + (t - 1)
                    IN  << <<y, cx - layer>>, <<y, cx + layer>> >>
               ELSE LET x == cx - layer + (t - n - 1)
                    IN  << <<cy - layer, x>>, <<cy + layer, x>> >>]

CellInRange(m, cell) == IndexOK(cell[1], MatSide(m)) /\ IndexOK(cell[2], MatSide(m))

\* Mutant: only the first operand of `or` is tested.
TestOutcomeFirstOnly(m, test, color) ==
    IF ~CellInRange(m, test[1]) THEN "IndexError"
    ELSE IF MatAt(m, test[1][1], test[1][2]) # color THEN "StopIteration"
    ELSE "ok"

\* One `if a != color or b != color: raise StopIteration`, with numpy's
\* IndexError for an index out of range and the short-circuit of `or`.
TestOutcome(m, test, color) ==
    IF ~CellInRange(m, test[1]) THEN "IndexError"
    ELSE IF MatAt(m, test[1][1], test[1][2]) # color THEN "StopIteration"
    ELSE IF ~CellInRange(m, test[2]) THEN "IndexError"
    ELSE IF MatAt(m, test[2][1], test[2][2]) # color THEN "StopIteration"
    ELSE "ok"

\* What one pass of the while loop does: "ok" when both for loops complete.
RingOutcome(m, layer) ==
    LET tests == RingTests(m, layer)
        color == RingColor(layer)
        bad == {t \in DOMAIN tests : TestOutcome(m, tests[t], color) # "ok"}
    IN  IF bad = {} THEN "ok"
        ELSE TestOutcome(m, tests[CHOOSE t \in bad : \A u \in bad : t <= u], color)

\* Mutant: the except clause does not back off.
NoBackOff(layer) == layer

\* except StopIteration: layer -= 1
BackOff(layer) == layer - 1

\* self._layers_value = layer - 2
LayersValue(layer) == layer - 2

_get_aztec_type(layers_) == IF layers_ = 2 THEN "COMPACT" ELSE "FULL"

\* both for loops complete: layer += 1
BullseyeRingPasses ==
    /\ bd_pc = "loop"
    /\ RingOutcome(bd_matrix, bd_layer) = "ok"
    /\ bd_layer' = bd_layer + 1
    /\ UNCHANGED <<bd_matrix, bd_bounds, _layers_value, bd_aztec_type, bd_pc>>
    /\ UNCHANGED NotBullseye

\* StopIteration, back off, and at least one ring was valid: return bounds
BullseyeReturn ==
    /\ bd_pc = "loop"
    /\ RingOutcome(bd_matrix, bd_layer) = "StopIteration"
    /\ BackOff(bd_layer) >= 1
    /\ LET layer == BackOff(bd_layer)
           cy == BdCentre(bd_matrix)
           cx == BdCentre(bd_matrix)
       IN  /\ bd_layer' = layer
           /\ _layers_value' = LayersValue(layer)
           /\ bd_bounds' = <<cy - layer, cx - layer, cy + layer, cx + layer>>
    /\ bd_pc' = "done"
    /\ UNCHANGED <<bd_matrix, bd_aztec_type>>
    /\ UNCHANGED NotBullseye

\* StopIteration, back off, layer < 1: raise BullseyeDetectionError
BullseyeFail ==
    /\ bd_pc = "loop"
    /\ RingOutcome(bd_matrix, bd_layer) = "StopIteration"
    /\ BackOff(bd_layer) < 1
    /\ bd_layer' = BackOff(bd_layer)
    /\ bd_pc' = "BullseyeDetectionError"
    /\ UNCHANGED <<bd_matrix, bd_bounds, _layers_value, bd_aztec_type>>
    /\ UNCHANGED NotBullseye

\* an index of the ring is out of range: IndexError leaves _detect_bounds
BullseyeIndexError ==
    /\ bd_pc = "loop"
    /\ RingOutcome(bd_matrix, bd_layer) = "IndexError"
    /\ bd_pc' = "IndexError"
    /\ UNCHANGED <<bd_matrix, bd_layer, bd_bounds, _layers_value, bd_aztec_type>>
    /\ UNCHANGED NotBullseye

\* aztec_type (cached): _get_aztec_type() on self.layers
BullseyeAztecType ==
    /\ bd_pc = "done"
    /\ bd_aztec_type = "None"
    /\ bd_aztec_type' = _get_aztec_type(_layers_value)
    /\ UNCHANGED <<bd_matrix, bd_layer, bd_bounds, _layers_value, bd_pc>>
    /\ UNCHANGED NotBullseye

\* Chebyshev distance of cell (i, j) (0-based) from the centre c.
RingOf(i, j, c) ==
    Max(IF i >= c THEN i - c ELSE c - i, IF j >= c THEN j - c ELSE c - j)

\* Input matrices of side 2c+1: rings 1..good alternate from dark, ring
\* good+1 has `flaws` as its wrong cells, the rings beyond are filled with
\* 0, with 1, or go on alternating; the centre cell is free.
BullseyeMatrix(c, good, flaws, fill, mid) ==
    [i1 \in 1..(2 * c + 1) |-> [j1 \in 1..(2 * c + 1) |->
        LET d == RingOf(i1 - 1, j1 - 1, c)
        IN  IF d = 0 THEN mid
            ELSE IF d <= good THEN (d + 1) % 2
            ELSE IF d = good + 1
                 THEN IF <<i1 - 1, j1 - 1>> \in flaws THEN 1 - ((d + 1) % 2)
                                                   ELSE (d + 1) % 2
            ELSE IF fill = 2 THEN (d + 1) % 2 ELSE fill]]

RingCells(c, d) ==
    {cell \in (0..(2 * c)) \X (0..(2 * c)) : RingOf(cell[1], cell[2], c) = d}

BullseyeInit ==
    /\ \E c \in 0..MaxHalfB, good \in 0..MaxHalfB, fill \in 0..2, mid \in 0..1 :
         /\ good <= c
         /\ \E flaws \in {{cell} : cell \in RingCells(c, good + 1)}
                          \cup {RingCells(c, good + 1)} :
              /\ (good < c => flaws # {})
              /\ bd_matrix = BullseyeMatrix(c, good, flaws, fill, mid)
    /\ bd_layer = 1
    /\ bd_bounds = "None"
    /\ _layers_value = "None"
    /\ bd_aztec_type = "None"
    /\ bd_pc = "loop"

BullseyeIdle ==
    /\ bd_matrix = <<>>
    /\ bd_layer = 0
    /\ bd_bounds = "None"
    /\ _layers_value = "None"
    /\ bd_aztec_type = "None"
    /\ bd_pc = "idle"

BullseyeNext ==
    \/ BullseyeRingPasses
    \/ BullseyeReturn
    \/ BullseyeFail
    \/ BullseyeIndexError
    \/ BullseyeAztecType

(***************************************************************************)
(* Constructors of BullseyeDetector and ModeReader (aztec_tool), and       *)
(* ModeReader._read_mode_bits.  The matrix is given by its shape; a bit of *)
(* the mode bitmap is identified by the matrix cell it was read from.      *)
(***************************************************************************)
MaxHalfM == 8           \* mode-ring matrices have shapes up to 2*MaxHalfM+1

\* matrix.ndim != 2 or matrix.shape[0] != matrix.shape[1]
NotSquare(shape) == IF Len(shape) # 2 THEN TRUE ELSE shape[1] # shape[2]

\* matrix.shape[0] % 2 == 0
EvenSide(shape) == shape[1] % 2 = 0

\* tl_y < 0 or tl_x < 0 or br_y >= matrix.shape[0] or br_x >= matrix.shape[1]
BoundsOutside(shape, b) ==
    b[1] < 0 \/ b[2] < 0 \/ b[3] >= shape[1] \/ b[4] >= shape[2]

\* BullseyeDetector.__init__ and ModeReader.__init__: the checks, in order.
CtorRejects ==
    IF NotSquare(mr_shape) THEN TRUE
    ELSE IF EvenSide(mr_shape) THEN TRUE
    ELSE IF mr_class # "ModeReader" THEN FALSE
    ELSE IF Len(mr_bounds) # 4 THEN TRUE
    ELSE BoundsOutside(mr_shape, mr_bounds)

CtorRaises ==
    /\ mr_pc = "new"
    /\ CtorRejects
    /\ mr_pc' = "InvalidParameterError"
    /\ UNCHANGED <<mr_class, mr_shape, mr_bounds, mr_aztec_type, mr_cells_read,
                   mr_mode_bitmap>>
    /\ UNCHANGED NotRing

CtorReturns ==
    /\ mr_pc = "new"
    /\ ~CtorRejects
    /\ mr_pc' = "ready"
    /\ UNCHANGED <<mr_class, mr_shape, mr_bounds, mr_aztec_type, mr_cells_read,
                   mr_mode_bitmap>>
    /\ UNCHANGED NotRing

\* range(a, b) and range(a, b, -1)
PyRange(a, b) == [k \in 1..Max(0, b - a) |-> a + k - 1]
PyRangeDown(a, b) == [k \in 1..Max(0, a - b) |-> a - k + 1]

\* `if self.aztec_type == AztecType.FULL and x == (start + 5): continue`
Skipped(type, v, start, step) == type = "FULL" /\ v = start + 5 * step

\* The indices (y, x) of the four loops of _read_mode_bits, in order.
ModeRingIndices(b, type) ==
    LET tl_y == b[1]  tl_x == b[2]  br_y == b[3]  br_x == b[4]
        tr_y == tl_y  tr_x == br_x  bl_y == br_y  bl_x == tl_x
        top    == SelectSeq(PyRange(tl_x + 1, (tr_x - 1) + 1),
                            LAMBDA x : ~Skipped(type, x, tl_x + 1, 1))
        right  == SelectSeq(PyRange(tr_y + 1, (br_y - 1) + 1),
                            LAMBDA y : ~Skipped(type, y, tr_y + 1, 1))
        bottom == SelectSeq(PyRangeDown(br_x - 1, (bl_x + 1) - 1),
                            LAMBDA x : ~Skipped(type, x, br_x - 1, -1))
        left   == SelectSeq(PyRangeDown(bl_y - 1, (tl_y + 1) - 1),
                            LAMBDA y : ~Skipped(type, y, bl_y - 1, -1))
    IN  [k \in 1..Len(top) |-> <<tl_y - 1, top[k]>>]
        \o [k \in 1..Len(right) |-> <<right[k], tr_x + 1>>]
        \o [k \in 1..Len(bottom) |-> <<br_y + 1, bottom[k]>>]
        \o [k \in 1..Len(left) |-> <<left[k], bl_x - 1>>]

\* numpy raises IndexError for an index outside [-N, N).
RingIndexOK(shape, idx) == IndexOK(idx[1], shape[1]) /\ IndexOK(idx[2], shape[2])

\* The matrix cell an accepted index designates: negative indices wrap.
RingCell(shape, idx) == <<NormIndex(idx[1], shape[1]), NormIndex(idx[2], shape[2])>>

\* The reads made before the first IndexError (all of them if there is none).
ReadsBeforeError(shape, idxs) ==
    LET bad == {k \in 1..Len(idxs) : ~RingIndexOK(shape, idxs[k])}
    IN  IF bad = {} THEN idxs
        ELSE SubSeq(idxs, 1, (CHOOSE k \in bad : \A j \in bad : k <= j) - 1)

\* _read_mode_bits returns: mode_bitmap is cached.
ReadModeBits ==
    /\ mr_pc = "ready"
    /\ mr_class = "ModeReader"
    /\ LET idxs == ModeRingIndices(mr_bounds, mr_aztec_type)
       IN  /\ \A k \in 1..Len(idxs) : RingIndexOK(mr_shape, idxs[k])
           /\ mr_cells_read' = idxs
           /\ mr_mode_bitmap' = [k \in 1..Len(idxs) |-> RingCell(mr_shape, idxs[k])]
    /\ mr_pc' = "read"
    /\ UNCHANGED <<mr_class, mr_shape, mr_bounds, mr_aztec_type>>
    /\ UNCHANGED NotRing

\* except IndexError: raise ModeFieldError
ReadModeBitsRaises ==
    /\ mr_pc = "ready"
    /\ mr_class = "ModeReader"
    /\ LET idxs == ModeRingIndices(mr_bounds, mr_aztec_type)
       IN  /\ \E k \in 1..Len(idxs) : ~RingIndexOK(mr_shape, idxs[k])
           /\ mr_cells_read' = ReadsBeforeError(mr_shape, idxs)
    /\ mr_pc' = "ModeFieldError"
    /\ UNCHANGED <<mr_class, mr_shape, mr_bounds, mr_aztec_type, mr_mode_bitmap>>
    /\ UNCHANGED NotRing

\* Shapes: square and odd, square and even, not square, not 2-D.
RingShapes ==
    {<<n, n>> : n \in 0..(2 * MaxHalfM + 1)}
    \cup {<<n, n + 1>> : n \in 1..3} \cup {<<n + 2, n>> : n \in 1..3}
    \cup {<<3>>, <<3, 3, 3>>}

\* Bounds: squares of every radius around the centre or one cell off it,
\* 4-tuples whose first corner lies below and right of the second, and
\* tuples of the wrong length.
RingBounds(shape) ==
    LET c == shape[1] \div 2
        squares == {<<c + dy - r, c + dx - r, c + dy + r, c + dx + r>> :
                       r \in 1..(c + 1), dy \in {-1, 0, 1}, dx \in {-1, 0, 1}}
        swapped == {<<shape[1] + 1, shape[1] + 1, c, c>>, <<c, c, -1, -1>>}
    IN  squares \cup swapped
            \cup {<<c - 1, c - 1, c + 1>>, <<c - 1, c - 1, c + 1, c + 1, c + 1>>}

RingInit ==
    /\ mr_class \in {"BullseyeDetector", "ModeReader"}
    /\ mr_shape \in RingShapes
    /\ IF mr_class = "ModeReader"
          THEN /\ mr_bounds \in RingBounds(mr_shape)
               /\ mr_aztec_type \in {"COMPACT", "FULL"}
          ELSE /\ mr_bounds = <<>>
               /\ mr_aztec_type = "None"
    /\ mr_cells_read = <<>>
    /\ mr_mode_bitmap = "None"
    /\ mr_pc = "new"

RingIdle ==
    /\ mr_class = "None"
    /\ mr_shape = <<>>
    /\ mr_bounds = <<>>
    /\ mr_aztec_type = "None"
    /\ mr_cells_read = <<>>
    /\ mr_mode_bitmap = "None"
    /\ mr_pc = "idle"

RingNext ==
    \/ CtorRaises
    \/ CtorReturns
    \/ ReadModeBits
    \/ ReadModeBitsRaises

(***************************************************************************)
(* ModeReader._correct and _extract_fields (aztec_tool/mode.py).           *)
(* reedsolo.RSCodec(nsym, nsize=15, fcr=1, generator=2, c_exp=4) is the    *)
(* Reed-Solomon code over GF(16) (primitive polynomial 0x13) whose         *)
(* generator has the roots 2^1 .. 2^nsym; its decode returns the code-word *)
(* within nsym div 2 symbol errors of its input, or raises.                *)
(***************************************************************************)
\* Powers of the generator 2 in GF(16), and their logarithms.
GfExp == <<1, 2, 4, 8, 3, 6, 12, 11, 5, 10, 7, 14, 15, 13, 9>>
GfLog(a) == CHOOSE i \in 0..14 : GfExp[i + 1] = a
GfMul(a, b) == IF a = 0 \/ b = 0 THEN 0 ELSE GfExp[((GfLog(a) + GfLog(b)) % 15) + 1]

\* Addition in GF(16): bitwise exclusive or of two 4-bit symbols.
GfAdd(a, b) ==
    LET bit(v, i) == (v \div (2 ^ i)) % 2
    IN  ((bit(a, 0) + bit(b, 0)) % 2) + 2 * ((bit(a, 1) + bit(b, 1)) % 2)
        + 4 * ((bit(a, 2) + bit(b, 2)) % 2) + 8 * ((bit(a, 3) + bit(b, 3)) % 2)

\* nsym = 5 if self.aztec_type == AztecType.COMPACT else 6
ModeNsym(type) == IF type = "COMPACT" THEN 5 ELSE 6

\* The generator polynomial (x + 2^1) ... (x + 2^n), highest degree first.
RECURSIVE RsGenerator(_)
RsGenerator(n) ==
    IF n = 0 THEN <<1>>
    ELSE LET g == RsGenerator(n - 1)
             root == GfExp[(n % 15) + 1]
         IN  [k \in 1..(n + 1) |->
                 GfAdd(IF k <= n THEN g[k] ELSE 0,
                       IF k >= 2 THEN GfMul(g[k - 1], root) ELSE 0)]

\* The remainder of msg * x^nsym by the generator: the check symbols.
RECURSIVE RsRemainder(_, _, _)
RsRemainder(msg, gen, rem) ==
    IF msg = <<>> THEN rem
    ELSE LET feedback == GfAdd(Head(msg), rem[1])
             n == Len(rem)
         IN  RsRemainder(Tail(msg), gen,
                 [k \in 1..n |->
                     GfAdd(IF k < n THEN rem[k + 1] ELSE 0,
                           GfMul(feedback, gen[k + 1]))])

RsEncode(msg, nsym) ==
    msg \o RsRemainder(msg, RsGenerator(nsym), [k \in 1..nsym |-> 0])

SymbolDistance(a, b) == Cardinality({k \in 1..Len(a) : a[k] # b[k]})

\* The data symbols of the mode messages the model knows.
ModeMessages(type) ==
    IF type = "COMPACT"
       THEN {<<0, 0>>, <<9, 5>>, <<15, 15>>, <<6, 10>>}
       ELSE {<<0, 0, 0, 0>>, <<1, 2, 3, 4>>, <<15, 15, 15, 15>>, <<2, 8, 7, 12>>}

ModeCodewords(type) == {RsEncode(msg, ModeNsym(type)) : msg \in ModeMessages(type)}

\* rs.decode: the code-word within nsym div 2 errors, or "ReedSolomonError".
RsDecodeMode(symbols, type) ==
    LET near == {c \in ModeCodewords(type) :
                    Len(c) = Len(symbols)
                    /\ SymbolDistance(c, symbols) <= ModeNsym(type) \div 2}
    IN  IF near = {} THEN "ReedSolomonError" ELSE CHOOSE c \in near : TRUE

\* int("".join(map(str, bits)), 2), most significant bit first
RECURSIVE BitsToInt(_)
BitsToInt(bits) ==
    IF bits = <<>> THEN 0
    ELSE 2 * BitsToInt(SubSeq(bits, 1, Len(bits) - 1)) + bits[Len(bits)]

\* symbols = [int(mode_bitmap[i : i + 4], 2) for i in range(0, len, 4)]
ModeSymbols(bits) ==
    [k \in 1..((Len(bits) + 3) \div 4) |-> BitsToInt(PySlice(bits, 4 * (k - 1), 4 * k))]

\* Mutant: the corrected symbols are expanded least significant bit first.
ExpandSymbolsLsbFirst(symbols) ==
    [k \in 1..(4 * Len(symbols)) |->
        (symbols[((k - 1) \div 4) + 1] \div (2 ^ ((k - 1) % 4))) % 2]

\* for shift in (3, 2, 1, 0): corrected_bits.append((sym >> shift) & 1)
ExpandSymbols(symbols) ==
    [k \in 1..(4 * Len(symbols)) |->
        (symbols[((k - 1) \div 4) + 1] \div (2 ^ (3 - ((k - 1) % 4)))) % 2]

\* _correct returns: mode_corrected_bits is cached.
ModeCorrect ==
    /\ mf_pc = "start"
    /\ mf_auto_correct
    /\ Len(mf_mode_bitmap) % 4 = 0
    /\ RsDecodeMode(ModeSymbols(mf_mode_bitmap), mf_aztec_type) # "ReedSolomonError"
    /\ mf_corrected_bits' =
           ExpandSymbols(RsDecodeMode(ModeSymbols(mf_mode_bitmap), mf_aztec_type))
    /\ mf_pc' = "corrected"
    /\ UNCHANGED <<mf_aztec_type, mf_auto_correct, mf_mode_bitmap, mf_fields>>
    /\ UNCHANGED NotField

\* except reedsolo.ReedSolomonError: raise ReedSolomonError
ModeCorrectRaises ==
    /\ mf_pc = "start"
    /\ mf_auto_correct
    /\ Len(mf_mode_bitmap) % 4 = 0
    /\ RsDecodeMode(ModeSymbols(mf_mode_bitmap), mf_aztec_type) = "ReedSolomonError"
    /\ mf_pc' = "ReedSolomonError"
    /\ UNCHANGED <<mf_aztec_type, mf_auto_correct, mf_mode_bitmap,
                   mf_corrected_bits, mf_fields>>
    /\ UNCHANGED NotField

\* bits = self.mode_corrected_bits if self.auto_correct else self.mode_bitmap
ExtractInput == IF mf_auto_correct THEN mf_corrected_bits ELSE mf_mode_bitmap

ExtractReady ==
    \/ mf_pc = "start" /\ ~mf_auto_correct
    \/ mf_pc = "corrected"

LayersBits(bits, type) ==
    IF type = "COMPACT" THEN PySlice(bits, 0, 2) ELSE PySlice(bits, 0, 5)

DataWordsBits(bits, type) ==
    IF type = "COMPACT" THEN PySlice(bits, 2, 8) ELSE PySlice(bits, 5, 16)

EccBits(bits, type) ==
    IF type = "COMPACT" THEN PySlice(bits, 8, Len(bits)) ELSE PySlice(bits, 16, Len(bits))

ModeMinLength(type) == IF type = "COMPACT" THEN 28 ELSE 40

\* _extract_fields returns: mode_fields is cached.
ModeExtract ==
    /\ ExtractReady
    /\ Len(ExtractInput) >= ModeMinLength(mf_aztec_type)
    /\ LET layers_ == BitsToInt(LayersBits(ExtractInput, mf_aztec_type)) + 1
           data_words_ == BitsToInt(DataWordsBits(ExtractInput, mf_aztec_type)) + 1
       IN  IF 1 <= layers_ /\ layers_ <= 32
              THEN /\ mf_fields' = [layers |-> layers_, data_words |-> data_words_,
                                    ecc_bits |-> EccBits(ExtractInput, mf_aztec_type)]
                   /\ mf_pc' = "done"
              ELSE /\ mf_fields' = mf_fields
                   /\ mf_pc' = "ModeFieldError"
    /\ UNCHANGED <<mf_aztec_type, mf_auto_correct, mf_mode_bitmap, mf_corrected_bits>>
    /\ UNCHANGED NotField

\* raise ModeFieldError("... mode message must be 28 / 40 bits")
ModeExtractRaises ==
    /\ ExtractReady
    /\ Len(ExtractInput) < ModeMinLength(mf_aztec_type)
    /\ mf_pc' = "ModeFieldError"
    /\ UNCHANGED <<mf_aztec_type, mf_auto_correct, mf_mode_bitmap,
                   mf_corrected_bits, mf_fields>>
    /\ UNCHANGED NotField

MaxSymbolErrors == 3    \* symbol errors put into a mode message

\* A code-word with the symbols at the positions `at` changed.
Corrupted(word, at, e) ==
    [k \in 1..Len(word) |-> IF k \in at THEN GfAdd(word[k], e) ELSE word[k]]

\* The bits of a sequence of symbols, most significant bit first.
SymbolsAsBits(symbols) ==
    [k \in 1..(4 * Len(symbols)) |->
        (symbols[((k - 1) \div 4) + 1] \div (2 ^ (3 - ((k - 1) % 4)))) % 2]

FieldInit ==
    /\ mf_aztec_type \in {"COMPACT", "FULL"}
    /\ mf_auto_correct \in BOOLEAN
    /\ \E word \in ModeCodewords(mf_aztec_type), e \in {1, 9},
          at \in SUBSET (1..(ModeNsym(mf_aztec_type) + 2)), cut \in {0, 2} :
         /\ Cardinality(at) <= MaxSymbolErrors
         /\ mf_auto_correct
                => Cardinality(at) <= ModeNsym(mf_aztec_type)
                                          - (ModeNsym(mf_aztec_type) \div 2)
         /\ (mf_auto_correct => cut = 0)
         /\ mf_mode_bitmap =
                SymbolsAsBits(SubSeq(Corrupted(word, at, e), 1, Len(word) - cut))
    /\ mf_corrected_bits = <<>>
    /\ mf_fields = <<>>
    /\ mf_pc = "start"

FieldIdle ==
    /\ mf_aztec_type = "None"
    /\ mf_auto_correct = FALSE
    /\ mf_mode_bitmap = <<>>
    /\ mf_corrected_bits = <<>>
    /\ mf_fields = <<>>
    /\ mf_pc = "idle"

FieldNext ==
    \/ ModeCorrect
    \/ ModeCorrectRaises
    \/ ModeExtract
    \/ ModeExtractRaises

(***************************************************************************)
(* AztecDecoder (aztec_tool/decoder.py): the lazy, cached views.  What a   *)
(* stage computes from the cells is kept as a term (a sequence of names);  *)
(* dc_symbol says which stage, if any, the cells of this matrix make fail, *)
(* whether the matrix has to be turned, and the type of its bull's-eye.    *)
(***************************************************************************)
MaxAccesses == 3    \* accesses made to one decoder

Views == {"bullseye_bounds", "aztec_type", "matrix", "mode_info", "bitmap",
          "corrected_bits", "message"}

\* Every functools.cached_property of the decoder and of the objects it holds.
CachedProperties ==
    Views \cup {"_raw_matrix", "_bullseye", "_mode", "_codewords",
                "_bullseye.bounds", "_bullseye.aztec_type",
                "_mode.mode_bitmap", "_mode.mode_corrected_bits",
                "_mode.mode_fields", "_codewords.bitmap",
                "_codewords.corrected_bits", "_codewords.decoded_string"}

Ok(st, value) == [st |-> st, out |-> value, err |-> "None"]
Raise(st, error) == [st |-> st, out |-> <<>>, err |-> error]

\* Sequencing: an exception of the first computation ends the second.
Bind(r, F(_, _)) == IF r.err # "None" THEN r ELSE F(r.st, r.out)

ReadsCells(st) == [st EXCEPT !.cells_read = TRUE]

\* BullseyeDetector.__init__: the shape checks, no cell is read.
BullseyeDetectorNew(st, m) ==
    IF NotSquare(dc_shape) THEN Raise(st, "InvalidParameterError")
    ELSE IF EvenSide(dc_shape) THEN Raise(st, "InvalidParameterError")
    ELSE Ok(st, <<"BullseyeDetector">> \o m)

\* BullseyeDetector._detect_bounds
DetectBounds(st, m) ==
    IF dc_symbol.fails = "detect"
       THEN Raise(ReadsCells(st), "BullseyeDetectionError")
       ELSE Ok(ReadsCells(st), <<"bounds">> \o m)

\* OrientationManager(matrix, bounds).rotate_if_needed()
RotateIfNeeded(st, m) ==
    IF dc_symbol.fails = "orient" THEN Raise(ReadsCells(st), "IndexError")
    ELSE Ok(ReadsCells(st), IF dc_symbol.turned THEN <<"rot90">> \o m ELSE m)

\* ModeReader.__init__
ModeReaderNew(st, m, bounds, type) ==
    IF NotSquare(dc_shape) THEN Raise(st, "InvalidParameterError")
    ELSE IF EvenSide(dc_shape) THEN Raise(st, "InvalidParameterError")
    ELSE Ok(st, <<"ModeReader">> \o m \o bounds \o type)

\* ModeReader._read_mode_bits
ReadModeRing(st, reader) ==
    IF dc_symbol.fails = "ring" THEN Raise(ReadsCells(st), "ModeFieldError")
    ELSE Ok(ReadsCells(st), <<"mode_bitmap">> \o reader)

\* ModeReader._correct, given mode_bitmap
CorrectMode(st, bits) ==
    IF dc_symbol.fails = "mode_rs"
       THEN Raise([st EXCEPT !.rs_mode = @ + 1], "ReedSolomonError")
       ELSE Ok([st EXCEPT !.rs_mode = @ + 1], <<"mode_corrected_bits">> \o bits)

\* ModeReader._extract_fields, given the bits it parses
ExtractFields(st, bits) ==
    IF dc_symbol.fails = "fields" THEN Raise(st, "ModeFieldError")
    ELSE Ok(st, <<"mode_fields">> \o bits)

\* CodewordReader._read_bits
ReadSpiral(st, reader) ==
    IF dc_symbol.fails = "spiral" THEN Raise(ReadsCells(st), "IndexError")
    ELSE Ok(ReadsCells(st), <<"bitmap">> \o reader)

\* CodewordReader._correct, given bitmap
CorrectData(st, bits) ==
    IF dc_symbol.fails = "data_rs"
       THEN Raise([st EXCEPT !.rs_data = @ + 1], "ReedSolomonError")
       ELSE Ok([st EXCEPT !.rs_data = @ + 1], <<"corrected_bits">> \o bits)

\* CodewordReader._remove_stuff_bits and the text decoding, given the bits
DecodeText(st, bits) ==
    IF dc_symbol.fails = "text" THEN Raise(st, "ValueError")
    ELSE Ok(st, <<"text">> \o bits)

\* Mutant: nothing is remembered, every access computes again.
NeverMemoised(p, st) == FALSE

\* functools.cached_property: the value is in the instance dictionary.
Memoised(p, st) == st.cache[p] # <<>>

\* Mutant: _decode takes corrected_bits whatever auto_correct says.
DecodeInputAlwaysCorrected == "_codewords.corrected_bits"

\* bits = self.corrected_bits if self.auto_correct else self.bitmap
DecodeInput ==
    IF _auto_correct THEN "_codewords.corrected_bits" ELSE "_codewords.bitmap"

\* bits = self.mode_corrected_bits if self.auto_correct else self.mode_bitmap
FieldsInput ==
    IF _mode_auto_correct THEN "_mode.mode_corrected_bits" ELSE "_mode.mode_bitmap"

RECURSIVE Get(_, _), Body(_, _)

\* Reading a cached property: the cached value, or the body's value, cached
\* when the body returns (an exception leaves nothing cached).
Get(p, st) ==
    IF Memoised(p, st) THEN Ok(st, st.cache[p])
    ELSE LET r == Body(p, st)
         IN  IF r.err # "None" THEN r
             ELSE Ok([r.st EXCEPT !.cache[p] = r.out, !.count[p] = @ + 1], r.out)

Body(p, st) ==
    CASE p = "_raw_matrix" -> Ok(st, <<"raw">>)
      [] p = "_bullseye" ->
            Bind(Get("_raw_matrix", st), LAMBDA s1, m : BullseyeDetectorNew(s1, m))
      [] p = "_bullseye.bounds" ->
            Bind(Get("_raw_matrix", st), LAMBDA s1, m : DetectBounds(s1, m))
      [] p = "_bullseye.aztec_type" ->
            Bind(Get("_bullseye.bounds", st),
                 LAMBDA s1, b : Ok(s1, <<dc_symbol.type>>))
      [] p = "bullseye_bounds" ->
            Bind(Get("_bullseye", st), LAMBDA s1, d : Get("_bullseye.bounds", s1))
      [] p = "aztec_type" ->
            Bind(Get("_bullseye", st), LAMBDA s1, d : Get("_bullseye.aztec_type", s1))
      [] p = "matrix" ->
            IF ~_auto_orient THEN Get("_raw_matrix", st)
            ELSE Bind(Get("_raw_matrix", st), LAMBDA s1, m :
                 Bind(Get("bullseye_bounds", s1), LAMBDA s2, b :
                 RotateIfNeeded(s2, m)))
      [] p = "_mode" ->
            Bind(Get("matrix", st), LAMBDA s1, m :
            Bind(BullseyeDetectorNew(s1, m), LAMBDA s2, d :
            Bind(DetectBounds(s2, m), LAMBDA s3, b :
            ModeReaderNew(s3, m, b, <<dc_symbol.type>>))))
      [] p = "_mode.mode_bitmap" ->
            Bind(Get("_mode", st), LAMBDA s1, reader : ReadModeRing(s1, reader))
      [] p = "_mode.mode_corrected_bits" ->
            Bind(Get("_mode.mode_bitmap", st), LAMBDA s1, bits : CorrectMode(s1, bits))
      [] p = "_mode.mode_fields" ->
            Bind(Get(FieldsInput, st), LAMBDA s1, bits : ExtractFields(s1, bits))
      [] p = "mode_info" ->
            Bind(Get("_mode", st), LAMBDA s1, reader : Get("_mode.mode_fields", s1))
      [] p = "_codewords" ->
            Bind(Get("matrix", st), LAMBDA s1, m :
            Bind(Get("mode_info", s1), LAMBDA s2, f :
            Bind(Get("aztec_type", s2), LAMBDA s3, t :
            Ok(s3, <<"CodewordReader">> \o m \o f \o t))))
      [] p = "_codewords.bitmap" ->
            Bind(Get("_codewords", st), LAMBDA s1, reader : ReadSpiral(s1, reader))
      [] p = "_codewords.corrected_bits" ->
            Bind(Get("_codewords.bitmap", st), LAMBDA s1, bits : CorrectData(s1, bits))
      [] p = "_codewords.decoded_string" ->
            Bind(Get(DecodeInput, st), LAMBDA s1, bits : DecodeText(s1, bits))
      [] p = "bitmap" ->
            Bind(Get("_codewords", st), LAMBDA s1, r : Get("_codewords.bitmap", s1))
      [] p = "corrected_bits" ->
            Bind(Get("_codewords", st),
                 LAMBDA s1, r : Get("_codewords.corrected_bits", s1))
      [] p = "message" ->
            Bind(Get("_codewords", st),
                 LAMBDA s1, r : Get("_codewords.decoded_string", s1))

\* An access to a view returns its value.
AccessReturns ==
    /\ dc_n < MaxAccesses
    /\ dc_shape # <<>>
    /\ \E view \in Views :
         LET r == Get(view, dc_state)
         IN  /\ r.err = "None"
             /\ dc_state' = r.st
             /\ dc_last' = [view |-> view, out |-> r.out, err |-> r.err,
                             hit |-> Memoised(view, dc_state)]
    /\ dc_n' = dc_n + 1
    /\ UNCHANGED <<dc_shape, _auto_orient, _auto_correct, _mode_auto_correct, dc_symbol>>
    /\ UNCHANGED NotDecoder

\* An access to a view raises; what was cached on the way stays cached.
AccessRaises ==
    /\ dc_n < MaxAccesses
    /\ dc_shape # <<>>
    /\ \E view \in Views :
         LET r == Get(view, dc_state)
         IN  /\ r.err # "None"
             /\ dc_state' = r.st
             /\ dc_last' = [view |-> view, out |-> r.out, err |-> r.err,
                             hit |-> Memoised(view, dc_state)]
    /\ dc_n' = dc_n + 1
    /\ UNCHANGED <<dc_shape, _auto_orient, _auto_correct, _mode_auto_correct, dc_symbol>>
    /\ UNCHANGED NotDecoder

\* decode(): return self.message
Decode ==
    /\ dc_n < MaxAccesses
    /\ dc_shape # <<>>
    /\ LET r == Get("message", dc_state)
       IN  /\ dc_state' = r.st
           /\ dc_last' = [view |-> "decode", out |-> r.out, err |-> r.err,
                           hit |-> Memoised("message", dc_state)]
    /\ dc_n' = dc_n + 1
    /\ UNCHANGED <<dc_shape, _auto_orient, _auto_correct, _mode_auto_correct, dc_symbol>>
    /\ UNCHANGED NotDecoder

FailPoints == {"none", "detect", "orient", "ring", "mode_rs", "fields",
               "spiral", "data_rs", "text"}

\* 2-D shapes: square and odd, square and even, not square, empty.
DecoderShapes == {<<15, 15>>, <<14, 14>>, <<15, 13>>, <<0, 0>>}

NewDecoderState ==
    [cache |-> [p \in CachedProperties |-> <<>>],
     count |-> [p \in CachedProperties |-> 0],
     rs_data |-> 0, rs_mode |-> 0, cells_read |-> FALSE]

DecoderInit ==
    /\ dc_shape \in DecoderShapes
    /\ _auto_orient \in BOOLEAN
    /\ _auto_correct \in BOOLEAN
    /\ _mode_auto_correct \in BOOLEAN
    /\ dc_symbol \in [fails : FailPoints, turned : BOOLEAN, type : {"COMPACT", "FULL"}]
    /\ dc_shape # <<15, 15>>
          => dc_symbol = [fails |-> "none", turned |-> FALSE, type |-> "COMPACT"]
    /\ dc_state = NewDecoderState
    /\ dc_last = [view |-> "None", out |-> <<>>, err |-> "None", hit |-> FALSE]
    /\ dc_n = 0

DecoderIdle ==
    /\ dc_shape = <<>>
    /\ _auto_orient = FALSE
    /\ _auto_correct = FALSE
    /\ _mode_auto_correct = FALSE
    /\ dc_symbol = [fails |-> "none", turned |-> FALSE, type |-> "COMPACT"]
    /\ dc_state = NewDecoderState
    /\ dc_last = [view |-> "None", out |-> <<>>, err |-> "None", hit |-> FALSE]
    /\ dc_n = 0

DecoderNext ==
    \/ AccessReturns
    \/ AccessRaises
    \/ Decode

(***************************************************************************)
(* MultiAztecDecoder (aztec_tool/decoder.py): decoders and messages.       *)
(***************************************************************************)
MaxSymbols == 4     \* symbols detected in one image

\* What decode() of the sub-decoder of one symbol does: it returns its
\* message, or raises an AztecDecoderError.
MessageTexts == {"A", "B"}

DecodeOutcomes ==
    {[fails |-> TRUE, message |-> ""]}
        \cup {[fails |-> FALSE, message |-> t] : t \in MessageTexts}

RECURSIVE SymbolLists(_)
SymbolLists(n) ==
    IF n = 0 THEN {<<>>}
    ELSE LET shorter == SymbolLists(n - 1)
         IN  shorter \cup {Append(l, o) : l \in {t \in shorter : Len(t) = n - 1},
                                          o \in DecodeOutcomes}

\* list.remove(x): the first element equal to x is taken out.
ListRemove(l, x) ==
    LET at == CHOOSE k \in 1..Len(l) : l[k] = x /\ \A j \in 1..(k - 1) : l[j] # x
    IN  [k \in 1..(Len(l) - 1) |-> IF k < at THEN l[k] ELSE l[k + 1]]

\* lines 209-226: one AztecDecoder per matrix; the constructor accepts every
\* 2-D array, so no sub-decoder is dropped here.
MultiDecoders ==
    /\ md_pc = "new"
    /\ decoders' = [k \in 1..Len(_matrices) |-> k]
    /\ messages' = <<>>
    /\ md_next' = 0
    /\ md_pc' = "loop"
    /\ UNCHANGED _matrices
    /\ UNCHANGED NotMulti

\* `for decoder in self.decoders`: the list iterator yields the element at
\* its position in the list as it is now, and moves on.
IteratorYields == md_pc = "loop" /\ md_next < Len(decoders)
decoder == decoders[md_next + 1]

\* lines 233-234: messages.append(decoder.decode())
MultiAppend ==
    /\ IteratorYields
    /\ ~_matrices[decoder].fails
    /\ messages' = Append(messages, _matrices[decoder].message)
    /\ md_next' = md_next + 1
    /\ UNCHANGED <<_matrices, decoders, md_pc>>
    /\ UNCHANGED NotMulti

\* lines 235-236: except AztecDecoderError: self.decoders.remove(decoder);
\* self.decoders is the cached list the loop is iterating over.
MultiRemove ==
    /\ IteratorYields
    /\ _matrices[decoder].fails
    /\ decoders' = ListRemove(decoders, decoder)
    /\ md_next' = md_next + 1
    /\ UNCHANGED <<_matrices, messages, md_pc>>
    /\ UNCHANGED NotMulti

\* line 237: the iterator is exhausted, return messages
MultiReturn ==
    /\ md_pc = "loop"
    /\ md_next >= Len(decoders)
    /\ md_pc' = "done"
    /\ UNCHANGED <<_matrices, decoders, messages, md_next>>
    /\ UNCHANGED NotMulti

MultiInit ==
    /\ _matrices \in SymbolLists(MaxSymbols) \ {<<>>}
    /\ decoders = <<>>
    /\ messages = <<>>
    /\ md_next = 0
    /\ md_pc = "new"

MultiIdle ==
    /\ _matrices = <<>>
    /\ decoders = <<>>
    /\ messages = <<>>
    /\ md_next = 0
    /\ md_pc = "idle"

MultiNext ==
    \/ MultiDecoders
    \/ MultiAppend
    \/ MultiRemove
    \/ MultiReturn

(***************************************************************************)
(* Specifications: one stage runs, the others stay idle.                   *)
(***************************************************************************)
InitSpiral == SpiralInit /\ StuffIdle /\ TextIdle /\ OrientIdle /\ BullseyeIdle /\ RingIdle
    /\ FieldIdle /\ DecoderIdle /\ MultiIdle
SpecSpiral == InitSpiral /\ [][SpiralNext]_vars

InitStuff == StuffInit /\ SpiralIdle /\ TextIdle /\ OrientIdle /\ BullseyeIdle /\ RingIdle
    /\ FieldIdle /\ DecoderIdle /\ MultiIdle
SpecStuff == InitStuff /\ [][StuffNext]_vars

InitText == TextInit /\ SpiralIdle /\ StuffIdle /\ OrientIdle /\ BullseyeIdle /\ RingIdle
    /\ FieldIdle /\ DecoderIdle /\ MultiIdle
SpecText == InitText /\ [][TextNext]_vars

\* _decode is straight-line sequential code: once called, the interpreter
\* keeps executing its next step, so an enabled step is eventually taken.
InitTextLive == TextLiveInit /\ SpiralIdle /\ StuffIdle /\ OrientIdle /\ BullseyeIdle
    /\ RingIdle /\ FieldIdle /\ DecoderIdle /\ MultiIdle
SpecTextLive == InitTextLive /\ [][TextNext]_vars /\ WF_vars(TextNext)

InitOrient == OrientInit /\ SpiralIdle /\ StuffIdle /\ TextIdle /\ BullseyeIdle /\ RingIdle
    /\ FieldIdle /\ DecoderIdle /\ MultiIdle
SpecOrient == InitOrient /\ [][OrientNext]_vars

InitBullseye == BullseyeInit /\ SpiralIdle /\ StuffIdle /\ TextIdle /\ OrientIdle /\ RingIdle
    /\ FieldIdle /\ DecoderIdle /\ MultiIdle
SpecBullseye == InitBullseye /\ [][BullseyeNext]_vars

InitRing ==
    RingInit /\ SpiralIdle /\ StuffIdle /\ TextIdle /\ OrientIdle /\ BullseyeIdle
    /\ FieldIdle /\ DecoderIdle /\ MultiIdle
SpecRing == InitRing /\ [][RingNext]_vars

InitField ==
    FieldInit /\ SpiralIdle /\ StuffIdle /\ TextIdle /\ OrientIdle /\ BullseyeIdle
    /\ RingIdle /\ DecoderIdle /\ MultiIdle
SpecField == InitField /\ [][FieldNext]_vars

InitDecoder ==
    DecoderInit /\ SpiralIdle /\ StuffIdle /\ TextIdle /\ OrientIdle /\ BullseyeIdle
    /\ RingIdle /\ FieldIdle /\ MultiIdle
SpecDecoder == InitDecoder /\ [][DecoderNext]_vars

InitMulti ==
    MultiInit /\ SpiralIdle /\ StuffIdle /\ TextIdle /\ OrientIdle /\ BullseyeIdle
    /\ RingIdle /\ FieldIdle /\ DecoderIdle
SpecMulti == InitMulti /\ [][MultiNext]_vars

\* Construction of a detector or a mode reader, or the accesses to a decoder.
InitParams == InitRing \/ InitDecoder
SpecParams == InitParams /\ [][RingNext \/ DecoderNext]_vars

(***************************************************************************)
(* C1: for a FULL symbol, no bit of the bitmap is read from a              *)
(* reference-grid cell (r,c) with (r - N//2) mod 16 = 0 or                 *)
(* (c - N//2) mod 16 = 0; this covers both cells of every domino.          *)
(***************************************************************************)
OnReferenceGrid(cell) ==
    \/ (cell[1] - (side \div 2)) % 16 = 0
    \/ (cell[2] - (side \div 2)) % 16 = 0

C1_NoReferenceCellRead ==
    aztec_type = "FULL" =>
        \A k \in 1..Len(read_cells) : ~OnReferenceGrid(read_cells[k])

(***************************************************************************)
(* C2 (as stated): when the stream holds at least data_words code-words,   *)
(* the list returned by _remove_stuff_bits has length exactly              *)
(* data_words * k.                                                         *)
(***************************************************************************)
C2_LengthExactlyDk ==
    (rs_pc = "done" /\ Len(rs_bits) >= rs_data_words * rs_cw_size)
        => Len(rs_result) = rs_data_words * rs_cw_size

\* Number of the first d code-words of the stream whose first k-1 bits are equal.
RECURSIVE CountConstantWords(_, _, _)
CountConstantWords(bits, k, d) ==
    IF d = 0 \/ Len(bits) < k THEN 0
    ELSE (IF \A j \in 1..(k - 1) : bits[j] = bits[1] THEN 1 ELSE 0)
         + CountConstantWords(SubSeq(bits, k + 1, Len(bits)), k, d - 1)

(***************************************************************************)
(* C2 (amended): when the stream holds at least data_words code-words, the *)
(* returned list has length data_words * k - s - p, floored at 0, where s  *)
(* is the number of the first data_words code-words whose first k-1 bits   *)
(* are all equal and p = len(bits) mod k.                                  *)
(***************************************************************************)
C2_LengthAfterRemoval ==
    (rs_pc = "done" /\ Len(rs_bits) >= rs_data_words * rs_cw_size)
        => Len(rs_result) =
             LET s == CountConstantWords(rs_bits, rs_cw_size, rs_data_words)
                 p == Len(rs_bits) % rs_cw_size
                 n == rs_data_words * rs_cw_size - s - p
             IN  IF n < 0 THEN 0 ELSE n

C2_StuffedAndPadded ==
    /\ rs_pc = "done"
    /\ rs_data_words = 2
    /\ Len(rs_bits) >= rs_data_words * rs_cw_size
    /\ CountConstantWords(rs_bits, rs_cw_size, rs_data_words) = 1
    /\ Len(rs_bits) % rs_cw_size = 1
    /\ Len(rs_result) = 2 * rs_cw_size - 2

(***************************************************************************)
(* C3: _remove_stuff_bits advances k bits per code-word, at most           *)
(* data_words words; a k-bit word whose first k-1 bits are all equal       *)
(* contributes exactly its first k-1 bits, every other k-bit word          *)
(* contributes all its k bits, unchanged and in order.                     *)
(***************************************************************************)
C3_WordByWord ==
    [][(rs_pc = "loop" /\ rs_pc' = "loop") =>
         /\ rs_i = words_seen * rs_cw_size
         /\ rs_i' = rs_i + rs_cw_size
         /\ words_seen' = words_seen + 1
         /\ words_seen' <= rs_data_words
         /\ (rs_i + rs_cw_size <= Len(rs_bits)) =>
              LET word == [j \in 1..rs_cw_size |-> rs_bits[rs_i + j]]
                  constant == \A j \in 1..(rs_cw_size - 1) : word[j] = word[1]
              IN  cleaned' = cleaned \o
                      (IF constant
                          THEN [j \in 1..(rs_cw_size - 1) |-> word[j]]
                          ELSE word)
      ]_vars

C3_BothKindsOfWord ==
    /\ rs_pc = "loop"
    /\ words_seen = 2
    /\ Len(cleaned) = 2 * rs_cw_size - 1
    /\ cleaned[rs_cw_size] # cleaned[1]

(***************************************************************************)
(* C4: a shift is transient.  When a shift token X/S is looked up in mode  *)
(* m and no latch token is looked up afterwards, the next symbol is taken  *)
(* from table X and the symbol after that one is taken in mode m again,    *)
(* whatever the item read under the shift is (FLG, B/S, another shift).    *)
(***************************************************************************)
ShiftTokens == {"U/S", "L/S", "M/S", "P/S", "D/S"}
LatchTokens == {"U/L", "L/L", "M/L", "P/L", "D/L"}
ShiftTable(tok) ==
    CASE tok = "U/S" -> "UPPER" [] tok = "L/S" -> "LOWER" [] tok = "M/S" -> "MIXED"
      [] tok = "P/S" -> "PUNCT" [] tok = "D/S" -> "DIGIT"

C4_ShiftIsTransient ==
    \A j \in 1..Len(lookups) :
        ( /\ lookups[j].char \in ShiftTokens
          /\ \A q \in (j + 1)..Len(lookups) : lookups[q].char \notin LatchTokens )
        => /\ (j + 1 <= Len(lookups)) =>
                 lookups[j + 1].mode = ShiftTable(lookups[j].char)
           /\ (j + 2 <= Len(lookups)) =>
                 lookups[j + 2].mode = lookups[j].mode

(***************************************************************************)
(* C5: on FLG the machine reads a 3-bit n; n = 0 appends exactly the one   *)
(* character 0x1D; 1 <= n <= 6 reads n 4-bit values and appends "[ECI:",   *)
(* six decimal digits (the id left-padded with zeros) and "]", whatever    *)
(* the 4-bit values are; n = 7 fails and returns no string.                *)
(***************************************************************************)
DecimalDigits == {"0", "1", "2", "3", "4", "5", "6", "7", "8", "9"}

\* The value of the w bits that follow position i (0-based), MSB first.
RECURSIVE FieldValue(_, _, _)
FieldValue(bits, i, w) ==
    IF w = 0 THEN 0 ELSE 2 * FieldValue(bits, i, w - 1) + bits[i + w]

\* This step looked `tok` up in a character table.
LooksUp(tok) ==
    /\ tx_pc = "loop"
    /\ Len(lookups') = Len(lookups) + 1
    /\ lookups'[Len(lookups')].char = tok

C5_FlagOutput ==
    [][(LooksUp("FLG(n)") /\ tx_i + 8 <= Len(tx_bits)) =>
         LET n == FieldValue(tx_bits, tx_i + 5, 3)
         IN  CASE n = 0 -> chars' = Append(chars, <<"chr(29)">>)
               [] n = 7 -> tx_pc' \notin {"loop", "done"}
               [] OTHER ->
                    (tx_i + 8 + 4 * n <= Len(tx_bits)) =>
                        /\ Len(chars') = Len(chars) + 1
                        /\ SubSeq(chars', 1, Len(chars)) = chars
                        /\ LET item == chars'[Len(chars')]
                           IN  /\ Len(item) = 8
                               /\ item[1] = "[ECI:"
                               /\ \A q \in 2..7 : item[q] \in DecimalDigits
                               /\ \A q \in 2..(7 - n) : item[q] = "0"
                               /\ item[8] = "]"
      ]_vars

(***************************************************************************)
(* C6: on B/S the machine reads a 5-bit length (0: 11 more bits, plus 31)  *)
(* and appends exactly that many characters, each the Latin-1 character    *)
(* of one full 8-bit group; if the stream ends before length*8 bits are    *)
(* available the decode fails instead of returning or going on with a      *)
(* shortened string.                                                       *)
(***************************************************************************)
C6_ByteShift ==
    [][(LooksUp("B/S") /\ tx_i + 10 <= Len(tx_bits)) =>
         LET short == FieldValue(tx_bits, tx_i + 5, 5)
             long  == short = 0
         IN  (long => tx_i + 21 <= Len(tx_bits)) =>
               LET count == IF long THEN FieldValue(tx_bits, tx_i + 10, 11) + 31
                                    ELSE short
                   from  == IF long THEN tx_i + 21 ELSE tx_i + 10
               IN  IF from + 8 * count <= Len(tx_bits)
                      THEN chars' = Append(chars,
                               [j \in 1..count |->
                                   FieldValue(tx_bits, from + 8 * (j - 1), 8)])
                      ELSE tx_pc' \notin {"loop", "done"}
      ]_vars

(***************************************************************************)
(* C7: given bounds symmetric about the centre, rotate_if_needed returns   *)
(* one of the four clockwise quarter-turn rotations of its input; if some  *)
(* rotation shows the canonical corner tuple ([1,1,1],[0,1,1],[1,0,0],     *)
(* [0,0,0]) clockwise from top-left, the returned matrix shows it; if no   *)
(* rotation does, the returned matrix equals the input cell for cell.      *)
(***************************************************************************)
QuarterTurn(m) ==
    [i \in 1..Len(m) |-> [j \in 1..Len(m) |-> m[Len(m) + 1 - j][i]]]

Turns(m) == {m, QuarterTurn(m), QuarterTurn(QuarterTurn(m)),
             QuarterTurn(QuarterTurn(QuarterTurn(m)))}

\* The canonical corner marks around bounds (t, l, b, r), cell by cell (0-based).
ShowsCanonical(m, bnd) ==
    LET t == bnd[1]  l == bnd[2]  b == bnd[3]  r == bnd[4]
        At(y, x) == m[y + 1][x + 1]
    IN  /\ At(t, l - 1) = 1 /\ At(t - 1, l - 1) = 1 /\ At(t - 1, l) = 1
        /\ At(t - 1, r) = 0 /\ At(t - 1, r + 1) = 1 /\ At(t, r + 1) = 1
        /\ At(b, r + 1) = 1 /\ At(b + 1, r + 1) = 0 /\ At(b + 1, r) = 0
        /\ At(b + 1, l) = 0 /\ At(b + 1, l - 1) = 0 /\ At(b, l - 1) = 0

C7_ReturnsCanonicalTurn ==
    om_pc = "done" =>
        /\ om_matrix \in Turns(om_input)
        /\ (\E m \in Turns(om_input) : ShowsCanonical(m, om_bounds))
               => ShowsCanonical(om_matrix, om_bounds)
        /\ (\A m \in Turns(om_input) : ~ShowsCanonical(m, om_bounds))
               => om_matrix = om_input

\* A matrix that needed two quarter turns, and one that no turn makes canonical.
C7_TurnedTwice ==
    /\ om_pc = "done"
    /\ om_run = 1
    /\ om_rotations = 2
    /\ ShowsCanonical(om_matrix, om_bounds)
    /\ om_matrix # om_input

C7_NeverCanonical ==
    /\ om_pc = "done"
    /\ om_run = 1
    /\ om_rotations = 4
    /\ om_matrix = om_input
    /\ QuarterTurn(om_input) # om_input

(***************************************************************************)
(* C8: the orientation step is idempotent: on a matrix that already shows  *)
(* the canonical corner tuple it performs zero rotations and returns the   *)
(* matrix unchanged, and applied to its own output it returns that output  *)
(* unchanged.                                                              *)
(***************************************************************************)
C8_Idempotent ==
    om_pc = "done" =>
        /\ ShowsCanonical(om_input, om_bounds)
               => (om_rotations = 0 /\ om_matrix = om_input)
        /\ om_run = 2 => om_matrix = om_input

C8_ReappliedToTurnedOutput ==
    /\ om_pc = "done"
    /\ om_run = 2
    /\ om_first # om_input
    /\ om_matrix = om_input
    /\ ShowsCanonical(om_input, om_bounds)

(***************************************************************************)
(* C9: for a square matrix of odd side N with centre c = N div 2, the      *)
(* detector returns bounds (c-r, c-r, c+r, c+r) where r is the largest     *)
(* radius such that every ring of Chebyshev radius j in 1..r consists only *)
(* of cells equal to (j+1) mod 2; it raises BullseyeDetectionError exactly *)
(* when r = 0; the bounds are symmetric about the centre.  Stated for the  *)
(* sides that have a radius-1 ring (N >= 3).                               *)
(***************************************************************************)
RingIsValid(m, j) ==
    LET c == Len(m) \div 2
    IN  \A y \in 1..Len(m), x \in 1..Len(m) :
            (\/ (y - 1 - c = j \/ c - (y - 1) = j) /\ x - 1 - c <= j /\ c - (x - 1) <= j
             \/ (x - 1 - c = j \/ c - (x - 1) = j) /\ y - 1 - c <= j /\ c - (y - 1) <= j)
                => m[y][x] = (j + 1) % 2

LargestRadius(m) ==
    CHOOSE r \in 0..(Len(m) \div 2) :
        /\ \A j \in 1..r : RingIsValid(m, j)
        /\ (r < Len(m) \div 2 => ~RingIsValid(m, r + 1))

C9_BoundsAreLargestRings ==
    (bd_pc \in {"done", "BullseyeDetectionError", "IndexError"} /\ Len(bd_matrix) >= 3) =>
        LET c == Len(bd_matrix) \div 2
            r == LargestRadius(bd_matrix)
        IN  IF r = 0
               THEN bd_pc = "BullseyeDetectionError"
               ELSE /\ bd_pc = "done"
                    /\ bd_bounds = <<c - r, c - r, c + r, c + r>>
                    /\ bd_bounds[3] - c = c - bd_bounds[1]
                    /\ bd_bounds[4] - c = c - bd_bounds[2]

\* Two valid rings, a flawed third one, and valid-looking rings beyond it.
C9_StopsAtFirstFlawedRing ==
    /\ bd_pc = "done"
    /\ Len(bd_matrix) = 7
    /\ bd_bounds = <<1, 1, 5, 5>>
    /\ ~RingIsValid(bd_matrix, 3)
    /\ Cardinality({cell \in RingCells(3, 3) :
                       bd_matrix[cell[1] + 1][cell[2] + 1] # 0}) = 1

(***************************************************************************)
(* C10: whenever bull's-eye detection succeeds, the derived layer count L  *)
(* (BullseyeDetector.layers) is an integer >= 2, and aztec_type is COMPACT *)
(* if and only if L = 2, FULL otherwise.                                   *)
(***************************************************************************)
C10_LayerCountAtLeastTwo ==
    (bd_pc = "done" /\ bd_aztec_type # "None") =>
        /\ _layers_value \in Int
        /\ _layers_value >= 2
        /\ bd_aztec_type = "COMPACT" <=> _layers_value = 2
        /\ bd_aztec_type \in {"COMPACT", "FULL"}

(***************************************************************************)
(* C17 (as stated): for every valid symbol the raw bit stream produced by  *)
(* the spiral has a length that is a multiple of the code-word size k      *)
(* chosen from the layer count, so that corrected_bits has exactly the     *)
(* same length as bitmap.  Checked on the compact symbols N = 11 + 4*l.    *)
(***************************************************************************)
ValidCompact == aztec_type = "COMPACT" /\ layers \in 1..4 /\ side = 11 + 4 * layers

C17_StreamIsWholeWords ==
    (sp_pc = "corrected" /\ ValidCompact) =>
        /\ bitmap_len % cw_size = 0
        /\ corrected_len = bitmap_len

(***************************************************************************)
(* C17 (amended): corrected_bits holds the whole code-words of the bitmap, *)
(* k * (len(bitmap) div k) bits; for the compact symbols this is the       *)
(* bitmap's length for 2, 3 and 4 layers, and two bits less for 1 layer    *)
(* (104 bits, k = 6).                                                      *)
(***************************************************************************)
C17_CorrectedIsWholeWords ==
    sp_pc = "corrected" =>
        /\ corrected_len = cw_size * (bitmap_len \div cw_size)
        /\ corrected_len <= bitmap_len
        /\ bitmap_len - corrected_len < cw_size
        /\ (ValidCompact /\ layers >= 2) => corrected_len = bitmap_len
        /\ (ValidCompact /\ layers = 1) => (bitmap_len = 104 /\ corrected_len = 102)

C17_OneLayerCompact ==
    /\ sp_pc = "corrected"
    /\ ValidCompact
    /\ layers = 1
    /\ corrected_len = 102

(***************************************************************************)
(* C18: for a COMPACT symbol of side N = 11 + 4*l read with l layers       *)
(* (l in 1..4), every ring traversal emits 4*(square_size - 2) two-bit     *)
(* dominoes, so the bitmap has exactly 8 * sum over j in 0..l-1 of         *)
(* (N - 2 - 4j) bits (408 bits for N = 23, l = 3).                         *)
(***************************************************************************)
RingBits(n, rings) ==
    IF rings = 0 THEN 0
    ELSE IF rings = 1 THEN 8 * (n - 2)
    ELSE IF rings = 2 THEN 8 * (n - 2) + 8 * (n - 6)
    ELSE IF rings = 3 THEN 8 * (n - 2) + 8 * (n - 6) + 8 * (n - 10)
    ELSE 8 * (n - 2) + 8 * (n - 6) + 8 * (n - 10) + 8 * (n - 14)

C18_CompactBitmapLength ==
    ValidCompact =>
        /\ (sp_pc = "loop" /\ line % 4 = 0) => bitmap_len = RingBits(side, line \div 4)
        /\ sp_pc # "IndexError"
        /\ sp_pc # "loop" => bitmap_len = RingBits(side, layers)
        /\ (sp_pc # "loop" /\ side = 23) => bitmap_len = 408

C18_ThreeLayerCompact ==
    /\ sp_pc = "done"
    /\ aztec_type = "COMPACT"
    /\ side = 23
    /\ layers = 3
    /\ bitmap_len = 408

(***************************************************************************)
(* C20: AztecDecoder.corrected_bits is the bit stream after Reed-Solomon   *)
(* correction and bit-stuff removal: it contains no stuffed bits and no    *)
(* check code-words beyond what bit-stuff removal keeps (at most           *)
(* data_words code-words).                                                 *)
(***************************************************************************)
C20_NoCheckWords ==
    sp_pc = "corrected" => corrected_len <= data_words * cw_size

(***************************************************************************)
(* C12: for every symbol whose bull's-eye is detected, the raw mode bitmap *)
(* read by ModeReader (with the bounds and aztec_type derived from that    *)
(* bull's-eye) has exactly 28 bits when aztec_type is COMPACT and exactly  *)
(* 40 bits when aztec_type is FULL.                                        *)
(***************************************************************************)
\* The bounds and the type BullseyeDetector derives from a bull's-eye of
\* radius r in a matrix of this shape.
DerivedFromBullseye(shape, b, type, r) ==
    /\ b = SymmetricBounds(shape[1] \div 2, r)
    /\ type = _get_aztec_type(LayersValue(r))

C12_ModeBitmapLength ==
    (mr_pc = "read" /\ \E r \in 1..(mr_shape[1] \div 2) :
                          DerivedFromBullseye(mr_shape, mr_bounds, mr_aztec_type, r)) =>
        /\ mr_aztec_type = "COMPACT" => Len(mr_mode_bitmap) = 28
        /\ mr_aztec_type = "FULL" => Len(mr_mode_bitmap) = 40

(***************************************************************************)
(* C14: for every matrix and bounds accepted by the ModeReader             *)
(* constructor, reading the mode ring either reads only cells of the ring  *)
(* immediately outside the bull's-eye that lie inside the matrix, or fails *)
(* with ModeFieldError; whenever a computed mode-ring coordinate falls     *)
(* outside [0, N) the result is ModeFieldError and never bits taken from   *)
(* another part of the matrix.                                             *)
(***************************************************************************)
InsideMatrix(shape, idx) ==
    idx[1] >= 0 /\ idx[1] < shape[1] /\ idx[2] >= 0 /\ idx[2] < shape[2]

OnRingOutside(b, idx) ==
    /\ idx[1] >= b[1] - 1 /\ idx[1] <= b[3] + 1
    /\ idx[2] >= b[2] - 1 /\ idx[2] <= b[4] + 1
    /\ (idx[1] = b[1] - 1 \/ idx[1] = b[3] + 1 \/ idx[2] = b[2] - 1 \/ idx[2] = b[4] + 1)

C14_RingOrModeFieldError ==
    mr_pc = "read" =>
        /\ Len(mr_mode_bitmap) = Len(mr_cells_read)
        /\ \A k \in 1..Len(mr_cells_read) :
              /\ InsideMatrix(mr_shape, mr_cells_read[k])
              /\ OnRingOutside(mr_bounds, mr_cells_read[k])
              /\ mr_mode_bitmap[k] = mr_cells_read[k]


\* The value of bits[from .. to) read most significant bit first.
MsbFirstValue(bits, from, to) ==
    LET Weighted[k \in from..to] ==
            IF k = to THEN 0 ELSE bits[k + 1] * 2 ^ (to - 1 - k) + Weighted[k + 1]
    IN  Weighted[from]

\* The value at x of the polynomial whose coefficients are the symbols.
RECURSIVE PolyEval(_, _)
PolyEval(symbols, x) ==
    IF symbols = <<>> THEN 0
    ELSE GfAdd(GfMul(PolyEval(SubSeq(symbols, 1, Len(symbols) - 1), x), x),
               symbols[Len(symbols)])

\* A mode message has no errors when all its syndromes are zero.
NoModeErrors(bits, type) ==
    /\ Len(bits) = ModeMinLength(type)
    /\ \A i \in 1..ModeNsym(type) :
           PolyEval([k \in 1..(Len(bits) \div 4) |->
                        MsbFirstValue(bits, 4 * (k - 1), 4 * k)], GfExp[i + 1]) = 0

ParsedFields(bits, type) ==
    IF type = "COMPACT"
       THEN [layers |-> 1 + MsbFirstValue(bits, 0, 2),
             data_words |-> 1 + MsbFirstValue(bits, 2, 8),
             ecc_bits |-> SubSeq(bits, 9, Len(bits))]
       ELSE [layers |-> 1 + MsbFirstValue(bits, 0, 5),
             data_words |-> 1 + MsbFirstValue(bits, 5, 16),
             ecc_bits |-> SubSeq(bits, 17, Len(bits))]

\* C13: mode_fields are read most significant bit first from fixed positions
\* (COMPACT: 2 bits of layers, 6 of data_words, then the 20 check bits; FULL:
\* 5, 11, then the 24 check bits); without auto_correct they come from the raw
\* mode bits, and a mode message without errors gives the same fields with
\* and without auto_correct.
C13_FieldsParsedMsbFirst ==
    /\ mf_pc = "done" =>
          /\ mf_fields = ParsedFields(IF mf_auto_correct THEN mf_corrected_bits
                                      ELSE mf_mode_bitmap, mf_aztec_type)
          /\ Len(mf_mode_bitmap) = ModeMinLength(mf_aztec_type)
                => Len(mf_fields.ecc_bits) = 4 * ModeNsym(mf_aztec_type)
    /\ NoModeErrors(mf_mode_bitmap, mf_aztec_type) =>
          /\ mf_pc \notin {"ReedSolomonError", "ModeFieldError"}
          /\ mf_pc = "done" => mf_fields = ParsedFields(mf_mode_bitmap, mf_aztec_type)

\* C13 witness: an error-free compact message of 3 layers and 22 data words
\* has been corrected and parsed.
C13_CleanCompactMessage ==
    /\ mf_pc = "done"
    /\ mf_auto_correct
    /\ mf_aztec_type = "COMPACT"
    /\ NoModeErrors(mf_mode_bitmap, mf_aztec_type)
    /\ mf_fields.layers = 3
    /\ mf_fields.data_words = 22


\* The view an access is about: decode() is message.
ViewOf(name) == IF name = "decode" THEN "message" ELSE name

\* C15: for any sequence of accesses to the views of one decoder, a view is
\* computed at most once after it first succeeds, a later access returns the
\* value of the first, and the value (or the error) of an access is the one
\* a decoder on which nothing was accessed before gives.
C15_ViewsComputedOnce ==
    [][/\ \A p \in Views :
            /\ dc_state'.count[p] <= 1
            /\ dc_state.cache[p] # <<>> => dc_state'.cache[p] = dc_state.cache[p]
       /\ dc_n' = dc_n + 1 =>
            LET v == ViewOf(dc_last'.view)
                first == Get(v, NewDecoderState)
            IN  /\ dc_last'.out = first.out
                /\ dc_last'.err = first.err
                /\ dc_state.cache[v] # <<>> =>
                      /\ dc_last'.err = "None"
                      /\ dc_last'.out = dc_state.cache[v]
                      /\ dc_state'.count = dc_state.count]_vars

\* C15 witness: message is read again, from the cache, on a decoder that had
\* to turn its matrix.
C15_MessageReadAgain ==
    /\ dc_last.view = "message"
    /\ dc_last.hit
    /\ dc_last.err = "None"
    /\ _auto_orient
    /\ dc_symbol.turned

\* C16: with auto_correct off decode()/message comes from the raw bitmap and
\* decodes no Reed-Solomon data block; with mode_auto_correct off the mode
\* fields come from the raw mode bits and no Reed-Solomon mode block is
\* decoded; with both off decode() never raises a Reed-Solomon error.
C16_FlagsSkipReedSolomon ==
    [][dc_n' = dc_n + 1 =>
         /\ (~_auto_correct /\ ViewOf(dc_last'.view) = "message") =>
               /\ dc_state'.rs_data = dc_state.rs_data
               /\ dc_last'.err = "None" =>
                     dc_last'.out = <<"text">> \o dc_state'.cache["_codewords.bitmap"]
         /\ ~_mode_auto_correct =>
               /\ dc_state'.rs_mode = 0
               /\ dc_state'.cache["mode_info"] # <<>> =>
                     dc_state'.cache["mode_info"] =
                         <<"mode_fields">> \o dc_state'.cache["_mode.mode_bitmap"]
         /\ (~_auto_correct /\ ~_mode_auto_correct
                 /\ ViewOf(dc_last'.view) = "message") =>
               dc_last'.err # "ReedSolomonError"]_vars

\* C16 witness: decode() has returned with both flags off on a symbol whose
\* data block Reed-Solomon cannot correct.
C16_DecodedWithoutCorrection ==
    /\ dc_last.view = "decode"
    /\ dc_last.err = "None"
    /\ ~_auto_correct
    /\ ~_mode_auto_correct
    /\ dc_symbol.fails = "data_rs"

SquareOdd(shape) == Len(shape) = 2 /\ shape[1] = shape[2] /\ shape[1] % 2 = 1

\* Bounds that are not a 4-tuple, or have a coordinate outside the matrix.
BadBounds(shape, b) ==
    Len(b) # 4 \/ \E k \in 1..4 : b[k] < 0 \/ b[k] >= shape[1]

\* C11: a detector or a mode reader on a matrix that is not square or has an
\* even side, and a mode reader on bounds that are not a 4-tuple or lie
\* outside the matrix, are refused with InvalidParameterError before a cell
\* is read; decode() on such a matrix raises InvalidParameterError whatever
\* the three flags are.
C11_InvalidParametersRejected ==
    /\ (mr_pc # "idle" /\ ~SquareOdd(mr_shape)) =>
          mr_pc \in {"new", "InvalidParameterError"} /\ mr_cells_read = <<>>
    /\ (mr_class = "ModeReader" /\ SquareOdd(mr_shape)
            /\ BadBounds(mr_shape, mr_bounds)) =>
          mr_pc \in {"new", "InvalidParameterError"} /\ mr_cells_read = <<>>
    /\ (dc_last.view = "decode" /\ ~SquareOdd(dc_shape)) =>
          dc_last.err = "InvalidParameterError" /\ ~dc_state.cells_read

\* What holds of invalid parameters: as above, for bounds whose first corner is
\* not below or right of the second (top <= bottom, left <= right).
C11_WellFormedBoundsRejected ==
    /\ (mr_pc # "idle" /\ ~SquareOdd(mr_shape)) =>
          mr_pc \in {"new", "InvalidParameterError"} /\ mr_cells_read = <<>>
    /\ (mr_class = "ModeReader" /\ SquareOdd(mr_shape)
            /\ BadBounds(mr_shape, mr_bounds)
            /\ (Len(mr_bounds) = 4 =>
                   mr_bounds[1] <= mr_bounds[3] /\ mr_bounds[2] <= mr_bounds[4])) =>
          mr_pc \in {"new", "InvalidParameterError"} /\ mr_cells_read = <<>>
    /\ (dc_last.view = "decode" /\ ~SquareOdd(dc_shape)) =>
          dc_last.err = "InvalidParameterError" /\ ~dc_state.cells_read


\* C22: in a COMPACT symbol, of any odd side and layer count, no domino is
\* skipped and the extra adjustment after a LEFT side is never applied: a
\* completed ring takes exactly 4 off square_size and adds exactly 2 to
\* apply_to_borns.
C22_CompactNeverNudges ==
    [][(aztec_type = "COMPACT" /\ line' = line + 1) =>
          /\ ReadSteps = SideRange
          /\ IF reading_direction = "LEFT"
                THEN /\ square_size' = square_size - 4
                     /\ apply_to_borns' = apply_to_borns + 2
                ELSE /\ square_size' = square_size
                     /\ apply_to_borns' = apply_to_borns]_vars

\* C27: for every odd side, both types and every layer count, each cell
\* _read_bits reads has its row and column in [0, N), each domino gives two
\* bits, and no cell gives more than one bit of the bitmap.
C27_CellsInMatrixReadOnce ==
    /\ sp_pc # "IndexError"
    /\ \A k \in 1..Len(read_cells) :
          /\ read_cells[k][1] \in 0..(side - 1)
          /\ read_cells[k][2] \in 0..(side - 1)
    /\ sp_pc = "loop" =>
          \A k \in 1..Len(ReadSteps) :
             /\ StepIndex(ReadSteps[k]) \in 0..(side - 1)
             /\ Len(StepCells(ReadSteps[k])) = 2
    /\ Len(bitmap_cells) = bitmap_len
    /\ sp_pc # "loop" =>
          Cardinality({bitmap_cells[k] : k \in 1..Len(bitmap_cells)}) = bitmap_len

\* C27 witness: a FULL matrix of side 35 was read with more layers than it
\* holds, past two nudges.
C27_MoreLayersThanFit ==
    /\ sp_pc = "done"
    /\ aztec_type = "FULL"
    /\ side = 35
    /\ layers = 32
    /\ bitmap_len > 0
    /\ square_size < 0


\* The integer whose bit i is set exactly for the exponents i of the set.
RECURSIVE Encoding(_)
Encoding(exponents) ==
    IF exponents = {} THEN 0
    ELSE LET i == CHOOSE e \in exponents : TRUE
         IN  2 ^ i + Encoding(exponents \ {i})

\* The degree of the polynomial an integer encodes.
Degree(v) == CHOOSE d \in 0..16 : 2 ^ d <= v /\ v < 2 ^ (d + 1)

\* The polynomials as the comments of PRIM_POLY give them.
CommentedPolynomial(k) ==
    CASE k = 6  -> {6, 5, 0}
      [] k = 8  -> {8, 5, 3, 2, 0}
      [] k = 10 -> {10, 3, 0}
      [] k = 12 -> {12, 6, 5, 3, 0}

\* The polynomials the constants encode: x^6 + x + 1 for GF(64).
EncodedPolynomial(k) == IF k = 6 THEN {6, 1, 0} ELSE CommentedPolynomial(k)

StuffFreeWords ==
    /\ Len(tx_bits) = tx_data_words * codeword_size
    /\ \A w \in 0..(tx_data_words - 1) :
          \E j \in 2..(codeword_size - 1) :
             tx_bits[w * codeword_size + j] # tx_bits[w * codeword_size + 1]

C24_SymbolsFullWidth ==
    [][(StuffFreeWords /\ Len(lookups') = Len(lookups) + 1)
          => Len(SymbolBits) = SymbolWidth]_vars

CeilDiv(a, b) == (a + b - 1) \div b

IterationBound == CeilDiv(tx_data_words * codeword_size, 4)

\* C25: the text loop terminates: every iteration advances the bit index
\* by at least 4, the loop is left as soon as bit_index // k >= data_words,
\* and there are at most ceil(data_words * k / 4) iterations.
C25_TextLoopTerminates ==
    /\ [][tx_pc = "loop" =>
            IF (tx_i \div codeword_size) >= tx_data_words
               THEN tx_pc' = "done" /\ tx_i' = tx_i /\ chars' = chars
               ELSE /\ tx_i' >= tx_i + 4
                    /\ Len(lookups) + 1 <= IterationBound]_vars
    /\ (tx_pc = "loop") ~> (tx_pc \in {"done", "ValueError"})

C25_ReturnedAfterLastWord ==
    /\ tx_pc = "done"
    /\ tx_data_words > 0
    /\ (tx_i \div codeword_size) >= tx_data_words
    /\ Len(lookups) >= 2

\* C28: at the start of every iteration single_consumed is 0 or 1, it is 1
\* only while single_shift is set, and without a pending shift current_mode
\* equals previous_mode.
C28_ShiftBookkeeping ==
    tx_pc = "loop" =>
        /\ single_consumed \in {0, 1}
        /\ single_consumed = 1 => single_shift
        /\ ~single_shift => current_mode = previous_mode

C28_ShiftedCharacterRead ==
    /\ tx_pc = "loop"
    /\ single_shift
    /\ single_consumed = 1
    /\ current_mode # previous_mode


(***************************************************************************)
(* C26: for every square 0/1 matrix of odd side N >= 1, also when the      *)
(* alternating rings go on up to the border, _detect_bounds terminates and *)
(* either returns bounds inside the matrix or raises                       *)
(* BullseyeDetectionError; it never fails with an out-of-range index.      *)
(***************************************************************************)
C26_BoundsOrDetectionError ==
    /\ bd_pc # "IndexError"
    /\ bd_pc = "done" =>
          \A k \in 1..4 : bd_bounds[k] \in 0..(MatSide(bd_matrix) - 1)
    /\ bd_pc = "loop" => bd_layer <= BdCentre(bd_matrix) + 1


(***************************************************************************)
(* C29: bull's-eye detection is invariant under quarter turns: the outcome *)
(* of the detection on the raw matrix (bounds, aztec_type, or the error)   *)
(* is the outcome of the detection run again on the matrix after one, two  *)
(* or three applications of np.rot90(m, k=3), which is what the mode       *)
(* reader receives and what rotate_if_needed keeps using as bounds.        *)
(***************************************************************************)
RECURSIVE DetectFrom(_, _)
DetectFrom(m, layer) ==
    LET out == RingOutcome(m, layer)
    IN  IF out = "ok" THEN DetectFrom(m, layer + 1)
        ELSE IF out = "IndexError"
             THEN [pc |-> "IndexError", bounds |-> <<>>, type |-> "None"]
        ELSE IF BackOff(layer) < 1
             THEN [pc |-> "BullseyeDetectionError", bounds |-> <<>>, type |-> "None"]
        ELSE LET r == BackOff(layer)
                 c == BdCentre(m)
             IN  [pc |-> "done", bounds |-> <<c - r, c - r, c + r, c + r>>,
                  type |-> _get_aztec_type(LayersValue(r))]

RECURSIVE Rotated(_, _)
Rotated(m, k) == IF k = 0 THEN m ELSE rot90_k3(Rotated(m, k - 1))

C29_DetectionSurvivesRotation ==
    bd_pc \in {"done", "BullseyeDetectionError", "IndexError"} =>
        \A k \in 1..3 :
            LET again == DetectFrom(Rotated(bd_matrix, k), 1)
            IN  /\ again.pc = bd_pc
                /\ bd_pc = "done" =>
                      /\ again.bounds = bd_bounds
                      /\ bd_aztec_type # "None" => again.type = bd_aztec_type

\* A detected bull's-eye in a matrix that no quarter turn maps to itself.
C29_DetectedInAsymmetricMatrix ==
    /\ bd_pc = "done"
    /\ bd_aztec_type = "COMPACT"
    /\ \A k \in 1..3 : Rotated(bd_matrix, k) # bd_matrix


(***************************************************************************)
(* Claims on MultiAztecDecoder.                                            *)
(***************************************************************************)
\* The messages of the symbols whose decode succeeds, in detection order.
RECURSIVE SuccessfulMessages(_)
SuccessfulMessages(l) ==
    IF l = <<>> THEN <<>>
    ELSE IF Head(l).fails THEN SuccessfulMessages(Tail(l))
    ELSE <<Head(l).message>> \o SuccessfulMessages(Tail(l))

\* C21: messages holds, in detection order, the message of every detected
\* symbol whose decode succeeds; a symbol that fails with AztecDecoderError
\* is skipped and prevents no other symbol from being decoded, wherever the
\* failing symbols are.
C21_EverySuccessfulSymbolDecoded ==
    md_pc = "done" => messages = SuccessfulMessages(_matrices)

\* C30: once messages is evaluated, decoders holds exactly the sub-decoders
\* whose decode succeeded: it is as long as messages, decoders[i].decode()
\* is messages[i], and no failing sub-decoder remains.
C30_DecodersMatchMessages ==
    md_pc = "done" =>
        /\ Len(decoders) = Len(messages)
        /\ \A i \in 1..Len(decoders) :
              /\ ~_matrices[decoders[i]].fails
              /\ i <= Len(messages) => _matrices[decoders[i]].message = messages[i]

====
